---------------------------- MODULE Spec2Model ----------------------------
(***************************************************************************)
(* A model of the CVL cross-reference domain of docsinfra.sphinx_utils:    *)
(* the naming functions (to_refname, spec_and_rulename_from_ref), the      *)
(* objects / specs tables of CVLDomain with their registration, clearing   *)
(* and merging operations, and the lookup operations (resolve_xref,        *)
(* find_obj, resolve_any_xref).                                            *)
(*                                                                         *)
(* Strings.  A Python str is a sequence of atoms.  The atom ":" is the     *)
(* separator character, "~", "(" and ")" are those characters, and every   *)
(* other atom ("cvl", "rule", "foo", "s1", ...) stands for a non-empty run *)
(* of characters that holds none of the four.  Joining, splitting,         *)
(* stripping and slicing are computed on the sequences.                    *)
(*                                                                         *)
(* Optional values.  None is the empty tuple and a present value v is the  *)
(* one-element tuple <<v>>.                                                *)
(*                                                                         *)
(* Results.  A call's outcome is a record [exc, val]: exc is "none" when   *)
(* the call returns val, and the exception's class name when it raises.    *)
(*                                                                         *)
(* The host.  env.docname, the document being read, is an input of each    *)
(* directive; the host calls clear_doc and merge_domaindata, resolves the  *)
(* references, and clears env.ref_context when a document ends.            *)
(***************************************************************************)
EXTENDS Integers, Sequences, FiniteSets

VARIABLES
    nm,        \* the naming functions' call under test: inputs, position, outputs
    objects,   \* CVLDomain.objects: refname -> CVLObjectEntry
    specs,     \* CVLDomain.specs: spec name -> CVLSpecEntry
    curspec,   \* env.ref_context["cvl:spec"]: the current spec, or None
    last,      \* the last operation on the domain: its arguments, outcome, pre-state
    lx,        \* the CVLIdsParser call under test: its line and its result
    cv,        \* the element-identifier call under test: a spec file's elements,
               \* the identifiers asked for, and the outcome
    cp         \* the canonicalization under test: a file, two spellings of
               \* its path, and their canonical names

vars == <<nm, objects, specs, curspec, last, lx, cv, cp>>

\* The domain's state, the calls under test (which no domain operation
\* touches), and what each call under test leaves alone
domain == <<objects, specs, curspec, last>>
pure == <<nm, lx, cv, cp>>
notNaming == <<domain, lx, cv, cp>>
notLexer == <<domain, nm, cv, cp>>
notIds == <<domain, nm, lx, cp>>
notPaths == <<domain, nm, lx, cv>>

-----------------------------------------------------------------------------
(* Constants of cvl_domain.py *)

SPECFILE == "spec"
_domain == "cvl"
_spec_separator == ":"
\* cvlid.SEPARATOR
SEPARATOR == ":"

\* The keys of _cvl_object_types
_cvl_object_types ==
    {"rule", "invariant", "function", "definition", "hook", "ghost",
     "methods", "spec", "property"}

-----------------------------------------------------------------------------
(* Optional values and call outcomes *)

None == <<>>
Some(v) == <<v>>
IsNone(o) == Len(o) = 0
Val(o) == o[1]

Ret(v) == [exc |-> "none", val |-> v]
Raise(e) == [exc |-> e, val |-> <<>>]

-----------------------------------------------------------------------------
(* str.join and str.split on the separator *)

\* _spec_separator.join(parts)
RECURSIVE Join(_)
Join(parts) ==
    IF Len(parts) = 0 THEN <<>>
    ELSE IF Len(parts) = 1 THEN parts[1]
    ELSE parts[1] \o <<_spec_separator>> \o Join(Tail(parts))

HasSep(s) == \E i \in 1..Len(s) : s[i] = _spec_separator

FirstSep(s) ==
    CHOOSE i \in 1..Len(s) :
        /\ s[i] = _spec_separator
        /\ \A j \in 1..(i - 1) : s[j] # _spec_separator

\* s.split(_spec_separator)
RECURSIVE Split(_)
Split(s) ==
    IF ~HasSep(s) THEN <<s>>
    ELSE <<SubSeq(s, 1, FirstSep(s) - 1)>>
             \o Split(SubSeq(s, FirstSep(s) + 1, Len(s)))

\* s.split(_spec_separator, 1)
SplitOnce(s) ==
    IF ~HasSep(s) THEN <<s>>
    ELSE <<SubSeq(s, 1, FirstSep(s) - 1), SubSeq(s, FirstSep(s) + 1, Len(s))>>

-----------------------------------------------------------------------------
(* Naming functions *)

\* to_refname(reftype, spec_name, rule_name): spec_name and rule_name are
\* optional strings; the asserts raise AssertionError, joining a None
\* raises TypeError.
to_refname(reftype, spec_name, rule_name) ==
    IF reftype = "spec" THEN
        IF ~IsNone(rule_name) THEN Raise("AssertionError")
        ELSE IF IsNone(spec_name) THEN Raise("AssertionError")
        ELSE Ret(Join(<< <<_domain>>, <<reftype>>, Val(spec_name) >>))
    ELSE IF IsNone(spec_name) THEN
        IF IsNone(rule_name) THEN Raise("ValueError")
        ELSE Ret(Join(<< <<_domain>>, <<reftype>>, Val(rule_name) >>))
    ELSE
        IF IsNone(rule_name) THEN Raise("TypeError")
        ELSE Ret(Join(<< <<_domain>>, <<reftype>>, Val(spec_name), Val(rule_name) >>))

\* The decomposition without its last check (more than 4 parts)
spec_and_rulename_from_ref_NoTooMany(refname, reftype) ==
    LET parts == Split(refname) IN
    IF Len(refname) = 0 THEN Raise("ValueError")
    ELSE IF Len(parts) < 3 THEN Raise("ValueError")
    ELSE IF parts[1] # <<_domain>> THEN Raise("ValueError")
    ELSE IF parts[2] \notin {<<k>> : k \in _cvl_object_types} THEN Raise("ValueError")
    ELSE IF reftype = "spec" THEN
        IF Len(parts) > 3 THEN Raise("ValueError")
        ELSE Ret(<<reftype, Some(parts[3]), None>>)
    ELSE IF reftype = "property" THEN
        IF Len(parts) > 3 THEN Raise("ValueError")
        ELSE Ret(<<reftype, None, Some(parts[3])>>)
    ELSE IF Len(parts) = 3 THEN Ret(<<reftype, None, Some(parts[3])>>)
    ELSE Ret(<<reftype, Some(parts[3]), Some(parts[4])>>)

\* spec_and_rulename_from_ref(refname, reftype)
spec_and_rulename_from_ref(refname, reftype) ==
    LET parts == Split(refname) IN
    IF Len(refname) = 0 THEN Raise("ValueError")
    ELSE IF Len(parts) < 3 THEN Raise("ValueError")
    ELSE IF parts[1] # <<_domain>> THEN Raise("ValueError")
    ELSE IF parts[2] \notin {<<k>> : k \in _cvl_object_types} THEN Raise("ValueError")
    ELSE IF reftype = "spec" THEN
        IF Len(parts) > 3 THEN Raise("ValueError")
        ELSE Ret(<<reftype, Some(parts[3]), None>>)
    ELSE IF reftype = "property" THEN
        IF Len(parts) > 3 THEN Raise("ValueError")
        ELSE Ret(<<reftype, None, Some(parts[3])>>)
    ELSE IF Len(parts) = 3 THEN Ret(<<reftype, None, Some(parts[3])>>)
    ELSE IF Len(parts) > 4 THEN Raise("ValueError")
    ELSE Ret(<<reftype, Some(parts[3]), Some(parts[4])>>)

-----------------------------------------------------------------------------
(* The naming functions under test: a composition followed by the          *)
(* decomposition of its result, or the decomposition of a given string.    *)

\* Largest number of separator-delimited parts of a drawn refname
MaxParts == 5

\* Spec paths and names handed to to_refname: the empty string, plain
\* strings, and a string that holds the separator
NameStrs == {<<>>, <<"foo">>, <<"s1">>, <<"foo", ":", "bar">>}
OptNameStrs == {None} \cup {Some(s) : s \in NameStrs}

\* The parts a drawn refname is joined from
PartStrs == {<<>>, <<"cvl">>, <<"rule">>, <<"foo">>}
RawRefnames ==
    {Join(p) : p \in UNION {[1..k -> PartStrs] : k \in 0..MaxParts}}
RefTypes == {"rule", "spec", "property"}

Unset == [exc |-> "unset", val |-> <<>>]
NmIdle ==
    [pc |-> "idle", op |-> "none", kind |-> "rule", spec |-> None, name |-> None,
     refname |-> <<>>, composed |-> Unset, decomposed |-> Unset]
NmComposeCall(k, s, n) ==
    [pc |-> "start", op |-> "compose", kind |-> k, spec |-> s, name |-> n,
     refname |-> <<>>, composed |-> Unset, decomposed |-> Unset]
NmRawCall(r, k) ==
    [pc |-> "start", op |-> "raw", kind |-> k, spec |-> None, name |-> None,
     refname |-> r, composed |-> Unset, decomposed |-> Unset]

\* refname = to_refname(kind, spec, name)
NmCompose ==
    /\ nm.pc = "start"
    /\ nm.op = "compose"
    /\ LET r == to_refname(nm.kind, nm.spec, nm.name) IN
       nm' = [nm EXCEPT !.pc = IF r.exc = "none" THEN "composed" ELSE "done",
                        !.composed = r,
                        !.refname = r.val]
    /\ UNCHANGED notNaming

\* spec_and_rulename_from_ref(refname, kind) on the composed refname
NmDecompose ==
    /\ nm.pc = "composed"
    /\ nm' = [nm EXCEPT !.pc = "done",
                        !.decomposed = spec_and_rulename_from_ref(nm.refname, nm.kind)]
    /\ UNCHANGED notNaming

\* spec_and_rulename_from_ref(refname, reftype) on a drawn string
NmDecomposeRaw ==
    /\ nm.pc = "start"
    /\ nm.op = "raw"
    /\ nm' = [nm EXCEPT !.pc = "done",
                        !.decomposed = spec_and_rulename_from_ref(nm.refname, nm.kind)]
    /\ UNCHANGED notNaming

-----------------------------------------------------------------------------
(* Separator-delimited parts of a string, by counting separators *)

SepPos(s) == {i \in 1..Len(s) : s[i] = _spec_separator}
NParts(s) == Cardinality(SepPos(s)) + 1
NthSep(s, n) ==
    CHOOSE i \in SepPos(s) : Cardinality({j \in SepPos(s) : j < i}) = n - 1
PartAt(s, k) ==
    LET lo == IF k = 1 THEN 0 ELSE NthSep(s, k - 1)
        hi == IF k > Cardinality(SepPos(s)) THEN Len(s) + 1 ELSE NthSep(s, k)
    IN SubSeq(s, lo + 1, hi - 1)


-----------------------------------------------------------------------------
(* Tables (Python dicts) as functions *)

EmptyTable == [k \in {} |-> {}]
Put(t, k, v) == [x \in (DOMAIN t) \cup {k} |-> IF x = k THEN v ELSE t[x]]
SetDefault(t, k, v) == IF k \in DOMAIN t THEN t ELSE Put(t, k, v)
Restrict(t, keys) == [x \in keys |-> t[x]]
Range(q) == {q[i] : i \in 1..Len(q)}
\* The members of a sequence of sequences, one after the other
RECURSIVE Flatten(_)
Flatten(ps) == IF Len(ps) = 0 THEN <<>> ELSE ps[1] \o Flatten(Tail(ps))

(* Python values of different types compare unequal *)
PyBool(b) == [type |-> "bool", bool |-> b, str |-> ""]
PyStr(s) == [type |-> "str", bool |-> FALSE, str |-> s]
PyEq(a, b) == a.type = b.type /\ a.bool = b.bool /\ a.str = b.str

-----------------------------------------------------------------------------
(* Spec-path canonicalization *)

\* Paths.  A path is a sequence of atoms: a leading "/" is os.path.sep
\* (the path is absolute), a leading "@" is a remapping key (the path's
\* first part), and every other atom is one part of the path.

\* The configuration (CodeLinkConfig.__init__) and the environment: the
\* code path override and the remapping of the key both lead to the code
\* directory, as in get_abs_path's examples, and the document being read
\* is in that directory.  Directories are relative to env.srcdir.
srcdir == <<"srcdir">>
_code_path_override == <<"code">>
_path_remappings == [key \in {"@"} |-> <<"code">>]
docdir == <<"code">>

\* CodeLinkConfig.is_codepath_overridden
is_codepath_overridden == Len(_code_path_override) > 0

\* CodeLinkConfig.get_remapping(key)
get_remapping(key) ==
    IF key \notin DOMAIN _path_remappings THEN None
    ELSE Some(_path_remappings[key])

\* rel_to_srcdir(file) of relfn2path
rel_to_srcdir(file) ==
    IF Len(file) = 0 \/ file[1] # "/" THEN <<"/">> \o file ELSE file

\* BuildEnvironment.relfn2path(filename), its absolute path: a name with
\* a leading separator is relative to the source directory, any other to
\* the directory of the document being read
env_relfn2path(filename) ==
    IF Len(filename) > 0 /\ filename[1] = "/" THEN srcdir \o Tail(filename)
    ELSE srcdir \o docdir \o filename

\* relfn2path that leaves an absolute path where it is
relfn2path_NoOverride(filename) ==
    IF Len(filename) > 0 /\ filename[1] = "@" THEN
        env_relfn2path(rel_to_srcdir(Val(get_remapping(filename[1])))
                           \o Tail(filename))
    ELSE env_relfn2path(filename)

\* CodeLinkConfig.relfn2path(filename), its absolute path.  The key drawn
\* has a remapping.
relfn2path(filename) ==
    IF Len(filename) > 0 /\ filename[1] = "@" THEN
        env_relfn2path(rel_to_srcdir(Val(get_remapping(filename[1])))
                           \o Tail(filename))
    ELSE IF Len(filename) > 0 /\ filename[1] = "/" /\ is_codepath_overridden
         THEN env_relfn2path(rel_to_srcdir(_code_path_override)
                                 \o Tail(filename))
    ELSE env_relfn2path(filename)

\* CodeLinkConfig.get_abs_path(path)
get_abs_path(path) == relfn2path(path)

\* CodeLinkConfig.path2relfn(path): the file's path relative to the code
\* directory when the file is in it, and the path as it is otherwise
path2relfn(path) ==
    LET abs == get_abs_path(path)
        root == srcdir \o _code_path_override
    IN  IF Len(abs) > Len(root) /\ SubSeq(abs, 1, Len(root)) = root
        THEN SubSeq(abs, Len(root) + 1, Len(abs))
        ELSE path

\* canonical_spec_link_from_filepath(filepath, env), filepath optional
canonical_spec_link_from_filepath(filepath) ==
    IF IsNone(filepath) THEN None ELSE Some(path2relfn(Val(filepath)))

\* canonical_spec_name_from_filepath(filepath, env): str() of the link
canonical_spec_name_from_filepath(filepath) ==
    LET link == canonical_spec_link_from_filepath(filepath) IN
    IF IsNone(link) THEN <<"None">> ELSE Val(link)

-----------------------------------------------------------------------------
(* Code links *)

\* A remote url is a sequence of atoms: the scheme first, and "@", ":",
\* "/" and ".git" atoms of their own; no other atom holds "@", ":" or
\* ".git", and none but the scheme ends with "/".

\* GithubUrlsMaker.is_github_url(url)
is_github_url(url) == \E i \in 1..Len(url) : url[i] = "github.com"

\* The greatest index in lo..hi of an atom a of q, 0 when there is none
LastIndex(q, a, lo, hi) ==
    LET at == {i \in lo..hi : q[i] = a} IN
    IF at = {} THEN 0 ELSE CHOOSE i \in at : \A j \in at : j <= i

\* re.match(r"(.*)@(.*):(.*).git", url): the groups site and rel of the
\* greedy match, None when nothing matches
re_match_ssh(url) ==
    LET k == LastIndex(url, ".git", 1, Len(url))
        j == LastIndex(url, ":", 1, k - 1)
        i == LastIndex(url, "@", 1, j - 1)
    IN  IF k = 0 \/ j = 0 \/ i = 0 THEN None
        ELSE Some([site |-> SubSeq(url, i + 1, j - 1),
                   rel |-> SubSeq(url, j + 1, k - 1)])

\* GithubUrlsMaker.normalize_url(url); .groups() of no match is an
\* AttributeError
normalize_url(url) ==
    LET m == re_match_ssh(url)
        https == IF url[1] = "https://" THEN url
                 ELSE <<"https://">> \o Val(m).site \o <<"/">> \o Val(m).rel
        cut == IF https[Len(https)] = ".git"
               THEN SubSeq(https, 1, Len(https) - 1) ELSE https
    IN  IF url[1] # "https://" /\ IsNone(m) THEN Raise("AttributeError")
        ELSE Ret(IF cut[Len(cut)] = "/" THEN cut ELSE cut \o <<"/">>)

\* str() of a relative path: its parts with separators between
PathStr(parts) ==
    IF Len(parts) = 0 THEN <<".">>
    ELSE <<parts[1]>>
             \o Flatten([i \in 1..(Len(parts) - 1) |-> <<"/", parts[i + 1]>>])

\* The outcome of a call that logs: the exception, the value and the
\* warnings logged
Logged(exc, val, warnings) ==
    [exc |-> exc, val |-> val, warnings |-> warnings]

\* repo.head.commit.hexsha
hexsha == "sha"

\* GithubUrlsMaker.__call__(path) in a file system fs: whether the path
\* exists and is a directory, the working directory of its repository
\* (None when it is in no repository) and the remote's url
GithubUrlsMaker_call(path, fs) ==
    IF ~fs.exists THEN Logged("none", None, <<"missing">>)
    ELSE IF IsNone(fs.working_dir)
    THEN Logged("none", None, <<"no git repo found">>)
    ELSE IF ~is_github_url(fs.url)
    THEN Logged("none", None, <<"not on Github">>)
    ELSE LET url == normalize_url(fs.url)
             rel_path == SubSeq(path, Len(Val(fs.working_dir)) + 1, Len(path))
         IN  IF url.exc # "none" THEN Logged(url.exc, None, <<>>)
             ELSE Logged("none",
                         Some(url.val
                                  \o <<IF fs.is_dir THEN "tree" ELSE "blob",
                                       "/", hexsha, "/">>
                                  \o PathStr(rel_path)),
                         <<>>)

\* urllib's quoting of a part of a path: a blank becomes %20
quote_from_bytes(part) == IF part = "a b" THEN "a%20b" ELSE part

\* Path.as_uri() of an absolute path
as_uri(path) ==
    <<"file://">>
        \o Flatten([i \in 1..Len(path) |-> <<"/", quote_from_bytes(path[i])>>])

\* TutorialsCodeLink.process_link(env, refnode, has_explicit_title, title,
\* target): the pair (title, target) returned
TutorialsCodeLink_process_link(title, target, link_to_github, fs) ==
    LET path == get_abs_path(target)
        path_link == as_uri(path)
        url == GithubUrlsMaker_call(path, fs)
    IN  IF ~link_to_github THEN Logged("none", <<title, path_link>>, <<>>)
        ELSE IF url.exc # "none" THEN Logged(url.exc, <<>>, url.warnings)
        ELSE IF ~IsNone(url.val)
        THEN Logged("none", <<title, Val(url.val)>>, url.warnings)
        ELSE Logged("none", <<title, path_link>>,
                    url.warnings \o <<"could not create GitHub link">>)

-----------------------------------------------------------------------------
(* Index entries *)

\* CVLObjectEntry(docname, node_id, objtype); named is FALSE for a plain
\* tuple (docname, node_id, objtype), which has no attribute access.
CVLObjectEntry(d, node_id, objtype) ==
    [docname |-> d, node_id |-> node_id, objtype |-> objtype, named |-> TRUE]
PlainTuple(e) == [e EXCEPT !.named = FALSE]
\* tuple equality: a named tuple equals the plain tuple of the same fields
EntryEq(a, b) ==
    a.docname = b.docname /\ a.node_id = b.node_id /\ a.objtype = b.objtype

\* CVLSpecEntry(has_spec_object, rules_refnames)
CVLSpecEntry(has, refs) == [has_spec_object |-> has, rules_refnames |-> refs]

\* sphinx.util.nodes.make_id(env, document, prefix, term): the anchor made
\* from the prefix and the term
make_id(prefix, term) == <<"id", prefix>> \o term

-----------------------------------------------------------------------------
(* CVLDomain: registration *)

\* CVLDomain.note_object(fullname, objtype, node_id) while reading envdoc.
\* The assignment to spec_entry.has_spec_object, a field of a NamedTuple,
\* raises AttributeError after both tables were written.
note_object(objs, sps, envdoc, fullname, objtype, node_id) ==
    LET warn == IF fullname \in DOMAIN objs
                THEN << [msg |-> "duplicate", objtype |-> objtype,
                         fullname |-> fullname,
                         other |-> objs[fullname].docname] >>
                ELSE <<>>
        objs2 == Put(objs, fullname, CVLObjectEntry(envdoc, node_id, objtype))
    IN  IF objtype = "spec"
        THEN [objects |-> objs2,
              specs |-> SetDefault(sps, fullname, CVLSpecEntry(TRUE, <<>>)),
              warnings |-> warn, exc |-> "AttributeError"]
        ELSE [objects |-> objs2, specs |-> sps,
              warnings |-> warn, exc |-> "none"]

\* CVLDomain.note_spec_obj(spec_refname, refname)
note_spec_obj(sps, spec_refname, refname) ==
    LET sps2 == SetDefault(sps, spec_refname, CVLSpecEntry(FALSE, <<>>))
        entry == sps2[spec_refname]
    IN  IF refname \in Range(entry.rules_refnames) THEN sps2
        ELSE Put(sps2, spec_refname,
                 [entry EXCEPT !.rules_refnames = Append(@, refname)])

\* A clear_doc that deletes no object entry
clear_doc_KeepObjects(objs, sps, d) ==
    [objects |-> objs,
     specs |-> Restrict(sps,
                 {m \in DOMAIN sps :
                     ~PyEq(PyBool(sps[m].has_spec_object), PyStr(d))})]

\* CVLDomain.clear_doc(docname).  The loop over specs unpacks each
\* CVLSpecEntry as (pkg_docname, _node_id): pkg_docname is has_spec_object.
clear_doc(objs, sps, d) ==
    [objects |-> Restrict(objs, {k \in DOMAIN objs : objs[k].docname # d}),
     specs |-> Restrict(sps,
                 {m \in DOMAIN sps :
                     ~PyEq(PyBool(sps[m].has_spec_object), PyStr(d))})]

\* A merge that keeps nothing of the master's objects: the table becomes
\* the worker's entries of docnames
merge_domaindata_Replace(objs, sps, docnames, otherdata) ==
    LET oobjs == otherdata.objects
        mo == {k \in DOMAIN oobjs : oobjs[k].docname \in docnames}
    IN  [objects |-> [k \in mo |-> PlainTuple(oobjs[k])], specs |-> sps]

\* CVLDomain.merge_domaindata(docnames, otherdata).  Merged object entries
\* are stored as plain tuples; the loop over otherdata["specs"] tests
\* has_spec_object against docnames.
merge_domaindata(objs, sps, docnames, otherdata) ==
    LET oobjs == otherdata.objects
        ospecs == otherdata.specs
        mo == {k \in DOMAIN oobjs : oobjs[k].docname \in docnames}
        ms == {m \in DOMAIN ospecs :
                 \E d \in docnames :
                     PyEq(PyBool(ospecs[m].has_spec_object), PyStr(d))}
    IN  [objects |-> [k \in (DOMAIN objs) \cup mo |->
                        IF k \in mo THEN PlainTuple(oobjs[k]) ELSE objs[k]],
         specs |-> [m \in (DOMAIN sps) \cup ms |->
                        IF m \in ms THEN ospecs[m] ELSE sps[m]]]

-----------------------------------------------------------------------------
(* CVLObject: the directive's signature *)

\* CVLObject._spec_name: the :spec: option, else the current spec,
\* canonicalized; None when neither is given
_spec_name(specopt, cur) ==
    LET specname == IF IsNone(specopt) THEN cur ELSE specopt
        link == canonical_spec_link_from_filepath(specname)
    IN  IF IsNone(link) THEN None ELSE Some(Val(link))

\* The member of a signature: the text before the first "(" when the
\* signature holds one and ends with ")"
SigMember(sig) ==
    IF (\E i \in 1..Len(sig) : sig[i] = "(") /\ sig[Len(sig)] = ")"
    THEN SubSeq(sig, 1,
                (CHOOSE i \in 1..Len(sig) :
                    sig[i] = "(" /\ \A j \in 1..(i - 1) : sig[j] # "(") - 1)
    ELSE sig

\* CVLObject.handle_signature(sig, signode) of the directive cvl:<kind>:
\* the outcome of to_refname for the member (the returned fullname)
handle_signature(kind, specopt, cur, sig) ==
    to_refname(kind, _spec_name(specopt, cur), Some(SigMember(sig)))

-----------------------------------------------------------------------------
(* CVLXRefRole and CVLDomain: resolution *)

\* target.lstrip("~")
RECURSIVE LStripTilde(_)
LStripTilde(s) ==
    IF Len(s) > 0 /\ s[1] = "~" THEN LStripTilde(Tail(s)) ELSE s

\* CVLXRefRole.process_link(env, refnode, has_explicit_title, title, target)
\* of the role cvl:<kind>: the outcome holds (title, target), the title
\* optional (it becomes rulename, which is None for the spec role)
process_link(kind, has_explicit_title, title, target) ==
    LET target1 == IF ~has_explicit_title THEN LStripTilde(target) ELSE target
        split == SplitOnce(target1)
        specname ==
            IF kind \notin {"spec", "property"}
            THEN IF HasSep(target1) THEN Some(split[1]) ELSE None
            ELSE IF kind = "spec" THEN Some(target1) ELSE None
        rulename ==
            IF kind \notin {"spec", "property"}
            THEN IF HasSep(target1) THEN Some(split[2]) ELSE Some(target1)
            ELSE IF kind = "spec" THEN None ELSE Some(target1)
        canon == IF IsNone(specname) THEN None
                 ELSE Some(canonical_spec_name_from_filepath(specname))
        title1 == IF ~has_explicit_title /\ Len(title) > 0 /\ title[1] = "~"
                  THEN rulename ELSE Some(title)
        refname == to_refname(kind, canon, rulename)
    IN  IF refname.exc # "none" THEN refname
        ELSE Ret(<<title1, refname.val>>)

\* CVLDomain._make_refnode(builder, fromdocname, obj, node, contnode, name):
\* reads obj.objtype, obj.docname and obj.node_id
_make_refnode(obj, name) ==
    IF ~obj.named THEN Raise("AttributeError")
    ELSE Ret([refdoc |-> obj.docname, refid |-> obj.node_id, reftitle |-> name])

\* CVLDomain.resolve_xref(..., target, ...): the node, or None
resolve_xref(objs, target) ==
    IF target \notin DOMAIN objs THEN Ret(None)
    ELSE LET n == _make_refnode(objs[target], target) IN
         IF n.exc # "none" THEN n ELSE Ret(Some(n.val))

\* The keys of CVLDomain.object_types, in the dict's order
KindOrder ==
    <<"rule", "invariant", "function", "definition", "hook", "ghost",
      "methods", "spec", "property">>

\* The searches find_obj appends for the kinds, in order
RECURSIVE KindSearches(_, _, _)
KindSearches(kinds, spec_name, joined_name) ==
    IF Len(kinds) = 0 THEN <<>>
    ELSE LET objtype == kinds[1]
             plain == << Join(<< <<_domain>>, <<objtype>>, joined_name >>) >>
             withspec ==
                 IF IsNone(spec_name) THEN <<>>
                 ELSE IF objtype = "spec"
                      THEN << to_refname(objtype, spec_name, None).val >>
                      ELSE << to_refname(objtype, spec_name, Some(joined_name)).val >>
         IN  plain \o withspec \o KindSearches(Tail(kinds), spec_name, joined_name)

\* The searched names that are keys of the table, with their entries
RECURSIVE MatchesOf(_, _)
MatchesOf(objs, searches) ==
    IF Len(searches) = 0 THEN <<>>
    ELSE (IF searches[1] \in DOMAIN objs
          THEN << [name |-> searches[1], obj |-> objs[searches[1]]] >>
          ELSE <<>>) \o MatchesOf(objs, Tail(searches))

\* CVLDomain.find_obj(env, name, spec_name, kind): spec_name and kind are
\* optional.  parts[0] of an emptied list raises IndexError.
find_obj(objs, name, spec_name, kind) ==
    LET name1 == IF Len(name) >= 2 /\ name[Len(name) - 1] = "("
                    /\ name[Len(name)] = ")"
                 THEN SubSeq(name, 1, Len(name) - 2) ELSE name
        spec1 == IF IsNone(spec_name) THEN None
                 ELSE Some(canonical_spec_name_from_filepath(spec_name))
        parts0 == Split(name1)
        parts1 == IF parts0[1] = <<_domain>> THEN Tail(parts0) ELSE parts0
    IN  IF Len(parts1) = 0 THEN Raise("IndexError")
        ELSE
        LET haskind == parts1[1] \in {<<k>> : k \in _cvl_object_types}
            kind1 == IF haskind THEN Some(parts1[1][1]) ELSE kind
            parts2 == IF haskind THEN Tail(parts1) ELSE parts1
            kinds == IF IsNone(kind1) THEN KindOrder ELSE <<Val(kind1)>>
            joined_name == Join(parts2)
            searches == <<name1>> \o KindSearches(kinds, spec1, joined_name)
        IN  Ret(MatchesOf(objs, searches))

\* The results resolve_any_xref builds for the matches, in order
RECURSIVE AnyResults(_)
AnyResults(matches) ==
    IF Len(matches) = 0 THEN Ret(<<>>)
    ELSE LET obj == matches[1].obj
             refnode == _make_refnode(obj, matches[1].name)
             rest == AnyResults(Tail(matches))
         IN  IF ~obj.named THEN Raise("AttributeError")
             ELSE IF refnode.exc # "none" THEN refnode
             ELSE IF rest.exc # "none" THEN rest
             ELSE Ret(<< [role |-> Join(<< <<_domain>>, <<obj.objtype>> >>),
                          node |-> refnode.val] >> \o rest.val)

\* CVLDomain.resolve_any_xref(..., target, node, ...): spec_name and kind
\* are the node's cvl:spec and cvl:kind attributes
resolve_any_xref(objs, target, spec_name, kind) ==
    LET matches == find_obj(objs, target, spec_name, kind) IN
    IF matches.exc # "none" THEN matches
    ELSE AnyResults(matches.val)


\* The caller of resolve_any_xref (the host's reference resolver): several
\* results are reported in one warning that lists every candidate, and the
\* first result is the target used
resolve_anyref(results) ==
    [warnings |->
        IF Len(results) > 1
        THEN << [msg |-> "more than one target",
                 candidates |-> [i \in 1..Len(results) |->
                                    <<results[i].role, results[i].node.reftitle>>]] >>
        ELSE <<>>,
     chosen |-> IF Len(results) = 0 THEN None ELSE Some(results[1])]

-----------------------------------------------------------------------------
(* cvl_index: the generated indices *)

\* The order of str on the atoms of the refnames of the indices, which is
\* the order of the strings they stand for: ":" is before the capital
\* letters, and these are before the small letters.  No atom is the start
\* of another, so two strings compare as their first differing atoms do.
AtomOrder ==
    <<":", "Bar", "cvl", "fab", "foo", "function", "invariant", "rule", "s1">>
AtomRank(a) == CHOOSE i \in 1..Len(AtomOrder) : AtomOrder[i] = a

\* s < t for two strings
RECURSIVE StrLess(_, _)
StrLess(s, t) ==
    IF Len(t) = 0 THEN FALSE
    ELSE IF Len(s) = 0 THEN TRUE
    ELSE IF s[1] = t[1] THEN StrLess(Tail(s), Tail(t))
    ELSE AtomRank(s[1]) < AtomRank(t[1])

\* string[0].lower(): the first character of the string's first atom, in
\* lower case; LetterOrder is the order of str on these characters
LowerFirst ==
    [a \in Range(AtomOrder) |->
        CASE a = ":" -> ":"
          [] a = "Bar" -> "b"
          [] a = "cvl" -> "c"
          [] a \in {"fab", "foo", "function"} -> "f"
          [] a = "invariant" -> "i"
          [] a = "rule" -> "r"
          [] a = "s1" -> "s"]
LetterOrder == <<":", "b", "c", "f", "i", "r", "s">>
LetterRank(c) == CHOOSE i \in 1..Len(LetterOrder) : LetterOrder[i] = c

\* CVLDomain.get_objects(), all of it consumed: the rows (refname,
\* dispname, typ, docname, anchor, priority).  The first loop reads
\* obj.objtype of every entry, the second decomposes the refname of every
\* entry that is no spec.
get_objects(objs) ==
    IF \E k \in DOMAIN objs : ~objs[k].named THEN Raise("AttributeError")
    ELSE IF \E k \in DOMAIN objs :
                /\ objs[k].objtype # "spec"
                /\ spec_and_rulename_from_ref(k, objs[k].objtype).exc # "none"
         THEN Raise("ValueError")
    ELSE Ret({[refname |-> k,
               dispname |-> IF objs[k].objtype = "spec" THEN k
                            ELSE Val(spec_and_rulename_from_ref(
                                         k, objs[k].objtype).val[3]),
               typ |-> objs[k].objtype,
               docname |-> objs[k].docname,
               anchor |-> objs[k].node_id,
               priority |-> IF objs[k].objtype = "spec" THEN 0 - 1 ELSE 1] :
              k \in DOMAIN objs})

\* CVLDomain.get_specname(refname), for a refname of the table
get_specname(objs, refname) ==
    spec_and_rulename_from_ref(refname, objs[refname].objtype).val[2]

\* sorted(rows): the refname, the first member of a row, is in one row only
RECURSIVE SortedRows(_)
SortedRows(rows) ==
    IF rows = {} THEN <<>>
    ELSE LET m == CHOOSE r \in rows :
                      \A o \in rows \ {r} : StrLess(r.refname, o.refname)
         IN  <<m>> \o SortedRows(rows \ {m})

\* sorted(strings)
RECURSIVE SortedStrs(_)
SortedStrs(strs) ==
    IF strs = {} THEN <<>>
    ELSE LET m == CHOOSE r \in strs : \A o \in strs \ {r} : StrLess(r, o)
         IN  <<m>> \o SortedStrs(strs \ {m})

\* An IndexEntry (name, subtype, docname, anchor, extra, qualifier, descr)
IndexEntry(name, subtype, docname, anchor, extra, qualifier, descr) ==
    [name |-> name, subtype |-> subtype, docname |-> docname,
     anchor |-> anchor, extra |-> extra, qualifier |-> qualifier,
     descr |-> descr]

\* sorted(content.items()) for the content dict that setdefault and append
\* build from a list of (letter, entry): the letters in order, each with
\* its entries in the list's order
Content(pairs) ==
    LET letters == {pairs[i].letter : i \in 1..Len(pairs)}
        nth(n) == CHOOSE c \in letters :
                      Cardinality({o \in letters :
                                      LetterRank(o) < LetterRank(c)}) = n - 1
        OfLetter(c) ==
            LET Has(p) == p.letter = c
                sel == SelectSeq(pairs, Has)
            IN  [j \in 1..Len(sel) |-> sel[j].entry]
    IN  [n \in 1..Cardinality(letters) |-> <<nth(n), OfLetter(nth(n))>>]

\* RuleIndex._object_types
RuleIndex_object_types == {"rule", "invariant"}

\* The loop of RuleIndex.generate over the sorted rules (lines 84-107)
RuleContent(objs, rules) ==
    IF \E i \in 1..Len(rules) : Len(rules[i].dispname) = 0
    THEN Raise("IndexError")
    ELSE Ret(Content(
        [i \in 1..Len(rules) |->
            [letter |-> LowerFirst[rules[i].dispname[1]],
             entry |-> IndexEntry(
                 rules[i].dispname, 0, rules[i].docname, rules[i].anchor, <<>>,
                 IF rules[i].refname # rules[i].dispname
                    /\ ~IsNone(get_specname(objs, rules[i].refname))
                 THEN Val(get_specname(objs, rules[i].refname)) ELSE <<>>,
                 rules[i].typ)]]))

\* RuleIndex.generate from the rows of get_objects on (lines 75-107).  A
\* rule is (refname, dispname, docname, anchor, typ): rule[1], which is
\* looked for in docnames, is its dispname.
RuleIndexOn(objs, got, docnames) ==
    IF got.exc # "none" THEN got
    ELSE RuleContent(objs,
            SortedRows({r \in got.val :
                           /\ r.typ \in RuleIndex_object_types
                           /\ (IsNone(docnames)
                               \/ \E d \in Val(docnames) : r.dispname = <<d>>)}))

\* RuleIndex.generate(docnames): the content; docnames is optional
RuleIndex_generate(objs, docnames) ==
    RuleIndexOn(objs, get_objects(objs), docnames)

\* The letter of a spec in SpecIndex.generate: spec_name[0].lower() when
\* it is a letter, else spec_name[1]
SpecLetter(spec_name) ==
    IF Len(spec_name) = 0 THEN Raise("IndexError")
    ELSE IF spec_name[1] \in {":", "/", "@", "~", "(", ")"} THEN
        IF Len(spec_name) = 1 THEN Raise("IndexError")
        ELSE Ret(LowerFirst[spec_name[2]])
    ELSE Ret(LowerFirst[spec_name[1]])

\* One spec of the loop of SpecIndex.generate (lines 130-150): the
\* exception of its first failing step, or its letter with its entries
SpecRows(byref, spec_name, spec_entry) ==
    LET refs == SortedStrs(Range(spec_entry.rules_refnames))
        head == IF spec_entry.has_spec_object
                THEN IndexEntry(spec_name, 1, byref[spec_name].docname,
                                byref[spec_name].anchor, <<>>, <<>>, <<>>)
                ELSE IndexEntry(spec_name, 1, <<>>, <<>>, <<>>, <<>>, <<>>)
    IN  IF SpecLetter(spec_name).exc # "none" THEN SpecLetter(spec_name)
        ELSE IF spec_entry.has_spec_object /\ spec_name \notin DOMAIN byref
             THEN Raise("KeyError")
        ELSE IF \E i \in 1..Len(refs) : refs[i] \notin DOMAIN byref
             THEN Raise("KeyError")
        ELSE Ret([i \in 1..(Len(refs) + 1) |->
                    [letter |-> SpecLetter(spec_name).val,
                     entry |-> IF i = 1 THEN head
                               ELSE IndexEntry(byref[refs[i - 1]].dispname, 2,
                                               byref[refs[i - 1]].docname,
                                               byref[refs[i - 1]].anchor,
                                               <<>>, <<>>,
                                               byref[refs[i - 1]].typ)]])

\* SpecIndex.generate from the objects dict on (lines 128-153), over the
\* sorted specs with each one's outcome
SpecContent(outcomes) ==
    LET failing == {i \in 1..Len(outcomes) : outcomes[i].exc # "none"} IN
    IF failing # {}
    THEN outcomes[CHOOSE i \in failing : \A j \in failing : i <= j]
    ELSE Ret(Content(Flatten([i \in 1..Len(outcomes) |-> outcomes[i].val])))

\* SpecIndex.generate from the rows of get_objects on (lines 123-153)
SpecIndexOn(sps, names, got) ==
    IF got.exc # "none" THEN got
    ELSE SpecContent(
        [i \in 1..Len(names) |->
            SpecRows([k \in {r.refname : r \in got.val} |->
                         CHOOSE r \in got.val : r.refname = k],
                     names[i], sps[names[i]])])

\* SpecIndex.generate(docnames): the content (docnames is not read)
SpecIndex_generate(objs, sps) ==
    SpecIndexOn(sps, SortedStrs(DOMAIN sps), get_objects(objs))

-----------------------------------------------------------------------------
(* Inputs *)

Docs == {"d1", "d2"}

\* The directives of CVLDomain.directives that are CVLObject, as drawn
ObjectKinds == {"rule"}
\* The roles of CVLDomain.roles, as drawn
RoleKinds == {"rule", "spec"}

\* Spellings of the spec file s1: relative to the code root, and through
\* a remapping key
RawSpecs == {<<"s1">>, <<"@", "s1">>}
SpecOptions == {None} \cup {Some(p) : p \in RawSpecs}
ModNames == {<<"s1">>}
Sigs == {<<"foo">>, <<"foo", "(", ")">>}

\* Role texts
RuleTargets ==
    {<<"foo">>, <<"s1", ":", "foo">>, <<"@", "s1", ":", "foo">>,
     <<"~", "s1", ":", "foo">>}
SpecTargets == RawSpecs
RoleTargets(kind) == IF kind = "spec" THEN SpecTargets ELSE RuleTargets
\* Targets, spec hints and kind hints of an "any" reference
AnyTargets == {<<"foo">>, <<"foo", "(", ")">>, <<"cvl", ":", "rule", ":", "foo">>}
SpecHints == {None, Some(<<"@", "s1">>)}
KindHints == {None, Some("rule")}

\* Largest number of object entries in a worker's data
MaxOther == 1

\* The refnames a worker registers, and a worker's domain data: its objects
\* with the spec entries note_spec_obj made for them
WorkerKeys ==
    {to_refname(k, so, Some(SigMember(sig))).val :
        k \in ObjectKinds, so \in {None, Some(<<"s1">>)}, sig \in Sigs}
WorkerData(t) ==
    LET RECURSIVE SpecsOf(_)
        SpecsOf(keys) ==
            IF keys = {} THEN EmptyTable
            ELSE LET k == CHOOSE x \in keys : TRUE
                     parsed == spec_and_rulename_from_ref(k, "rule").val
                 IN  IF IsNone(parsed[2]) THEN SpecsOf(keys \ {k})
                     ELSE note_spec_obj(SpecsOf(keys \ {k}), Val(parsed[2]), k)
    IN  [objects |-> [k \in DOMAIN t |->
                        CVLObjectEntry(t[k], make_id("", k), "rule")],
         specs |-> SpecsOf(DOMAIN t)]
OtherDatas ==
    {WorkerData(t) :
        t \in UNION {[K -> Docs] :
                        K \in {K \in SUBSET WorkerKeys : Cardinality(K) <= MaxOther}}}

\* The directives of the indexed documents, as (kind, :spec: option,
\* signature): rules, an invariant and a function, two of a spec, one
\* with a capital letter
IxDirectives ==
    {<<"rule", None, <<"fab">>>>, <<"invariant", None, <<"foo">>>>,
     <<"function", None, <<"foo">>>>,
     <<"rule", Some(<<"s1">>), <<"Bar">>>>, <<"rule", Some(<<"s1">>), <<"foo">>>>}
\* docnames of an index: None, or some documents
IxDocnames == {None} \cup {Some(dn) : dn \in (SUBSET Docs) \ {{}}}
\* Largest number of entries in the objects table of the indices
MaxObjects == 2

\* The orders in which the members of a set can be taken
Orders(S) == {q \in [1..Cardinality(S) -> S] : Range(q) = S}

-----------------------------------------------------------------------------
(* The record of the last operation *)

LastRec(op, doc, kind, key, aux, exc, warnings, out, pobjs, psps) ==
    [op |-> op, doc |-> doc, kind |-> kind, key |-> key, aux |-> aux,
     exc |-> exc, warnings |-> warnings, out |-> out,
     pre_objects |-> pobjs, pre_specs |-> psps]
LastIdle ==
    LastRec("none", "", "", <<>>, <<>>, "none", <<>>, <<>>, EmptyTable, EmptyTable)

\* No operation is under way
Idle == last.op = "none"

-----------------------------------------------------------------------------
(* Operations: one at a time, each leaving its record in last *)

\* The directive cvl:<kind> with signature sig and :spec: option specopt in
\* document d: handle_signature, then CVLObject.add_target_and_index
\* (note_object, and note_spec_obj when the spec name is known)
CVLObjectRun(d, kind, specopt, sig) ==
    LET fullname == handle_signature(kind, specopt, curspec, sig).val
        node_id == make_id("", fullname)
        noted == note_object(objects, specs, d, fullname, kind, node_id)
        sn == _spec_name(specopt, curspec)
    IN  /\ Idle
        /\ objects' = noted.objects
        /\ specs' = IF noted.exc = "none" /\ ~IsNone(sn)
                    THEN note_spec_obj(noted.specs, Val(sn), fullname)
                    ELSE noted.specs
        /\ last' = LastRec("object", d, kind, fullname,
                           [spec_name |-> sn, member |-> SigMember(sig)],
                           noted.exc, noted.warnings, node_id, objects, specs)
        /\ UNCHANGED <<pure, curspec>>

\* CVLSpec.run of the directive cvl:spec with argument modname in document
\* d, the directive's content being empty: directives that follow in the
\* document find modname in env.ref_context
CVLSpecRun(d, modname, noindex) ==
    LET node_id == make_id(SPECFILE, modname)
        noted == note_object(objects, specs, d, modname, SPECFILE, node_id)
    IN  /\ Idle
        /\ curspec' = Some(modname)
        /\ objects' = IF noindex THEN objects ELSE noted.objects
        /\ specs' = IF noindex THEN specs ELSE noted.specs
        /\ last' = LastRec(IF noindex THEN "spec_noindex" ELSE "spec",
                           d, SPECFILE, modname, <<>>,
                           IF noindex THEN "none" ELSE noted.exc,
                           IF noindex THEN <<>> ELSE noted.warnings,
                           node_id, objects, specs)
        /\ UNCHANGED pure

\* The host ends a document: env.ref_context is cleared
EndDoc ==
    /\ Idle
    /\ ~IsNone(curspec)
    /\ curspec' = None
    /\ last' = LastIdle
    /\ UNCHANGED <<pure, objects, specs>>

\* The host invalidates document d
ClearDoc(d) ==
    LET cleared == clear_doc(objects, specs, d) IN
    /\ Idle
    /\ objects' = cleared.objects
    /\ specs' = cleared.specs
    /\ last' = LastRec("clear_doc", d, "", <<>>, <<>>, "none", <<>>, <<>>,
                       objects, specs)
    /\ UNCHANGED <<pure, curspec>>

\* The host merges a worker's data for the documents docnames
MergeDomaindata(docnames, otherdata) ==
    LET merged == merge_domaindata(objects, specs, docnames, otherdata) IN
    /\ Idle
    /\ objects' = merged.objects
    /\ specs' = merged.specs
    /\ last' = LastRec("merge", "", "", <<>>,
                       [docnames |-> docnames, otherdata |-> otherdata],
                       "none", <<>>, <<>>, objects, specs)
    /\ UNCHANGED <<pure, curspec>>

\* The role cvl:<kind> with the given text: process_link, then the host
\* resolves the reference with resolve_xref
XRef(kind, text, has_explicit_title) ==
    LET link == process_link(kind, has_explicit_title, text, text)
        node == IF link.exc # "none" THEN link
                ELSE resolve_xref(objects, link.val[2])
    IN  /\ Idle
        /\ last' = LastRec("xref", "", kind, text,
                           [explicit |-> has_explicit_title, link |-> link],
                           node.exc, <<>>, node.val, EmptyTable, EmptyTable)
        /\ UNCHANGED <<pure, objects, specs, curspec>>

\* An "any" reference: the host calls resolve_any_xref and settles on a
\* target with resolve_anyref
ResolveAny(target, spec_name, kind) ==
    LET found == find_obj(objects, target, spec_name, kind)
        results == resolve_any_xref(objects, target, spec_name, kind)
        host == IF results.exc = "none" THEN resolve_anyref(results.val)
                ELSE [warnings |-> <<>>, chosen |-> None]
    IN  /\ Idle
        /\ last' = LastRec("any", "", "", target,
                           [spec_name |-> spec_name, kind |-> kind,
                            found |-> found, chosen |-> host.chosen],
                           results.exc, host.warnings, results.val,
                           EmptyTable, EmptyTable)
        /\ UNCHANGED <<pure, objects, specs, curspec>>

\* The host asks for the rule index
RuleIndexGenerate(docnames) ==
    LET content == RuleIndex_generate(objects, docnames) IN
    /\ Idle
    /\ last' = LastRec("ruleindex", "", "", <<>>, [docnames |-> docnames],
                       content.exc, <<>>, content.val, objects, specs)
    /\ UNCHANGED <<pure, objects, specs, curspec>>

\* The host asks for the spec index
SpecIndexGenerate ==
    LET content == SpecIndex_generate(objects, specs) IN
    /\ Idle
    /\ last' = LastRec("specindex", "", "", <<>>, <<>>,
                       content.exc, <<>>, content.val, objects, specs)
    /\ UNCHANGED <<pure, objects, specs, curspec>>

\* CVLObject.add_target_and_index for the entries of the table old under
\* the refnames keys, one after the other, while document d is read: the
\* directive of each registers it again under its refname and anchor,
\* with the spec name its refname holds
RECURSIVE Reregister(_, _, _, _, _, _)
Reregister(objs, sps, d, old, keys, warnings) ==
    IF Len(keys) = 0
    THEN [objects |-> objs, specs |-> sps, warnings |-> warnings, exc |-> "none"]
    ELSE LET k == keys[1]
             noted == note_object(objs, sps, d, k, old[k].objtype, old[k].node_id)
             sn == spec_and_rulename_from_ref(k, old[k].objtype).val[2]
         IN  IF noted.exc # "none"
             THEN [noted EXCEPT !.warnings = warnings \o noted.warnings]
             ELSE Reregister(noted.objects,
                             IF IsNone(sn) THEN noted.specs
                             ELSE note_spec_obj(noted.specs, Val(sn), k),
                             d, old, Tail(keys), warnings \o noted.warnings)

\* The host builds document d again: clear_doc(d), then the directives of
\* d run again and register its objects, in the order keys
Rebuild(d, keys) ==
    LET cleared == clear_doc(objects, specs, d)
        again == Reregister(cleared.objects, cleared.specs, d, objects, keys, <<>>)
    IN  /\ Idle
        /\ Range(keys) = {k \in DOMAIN objects : objects[k].docname = d}
        /\ objects' = again.objects
        /\ specs' = again.specs
        /\ last' = LastRec("rebuild", d, "", <<>>, [keys |-> keys],
                           again.exc, again.warnings, <<>>, objects, specs)
        /\ UNCHANGED <<pure, curspec>>

\* The operation returned and its outcome is taken: the next operation may
\* start.  No handler of the domain catches an exception of these
\* operations: after one the build is over.
Return ==
    /\ ~Idle
    /\ last.exc = "none"
    /\ last' = LastIdle
    /\ UNCHANGED <<pure, objects, specs, curspec>>

-----------------------------------------------------------------------------
(* cvlid.CVLElemetWrapper: the kinds of elements *)

\* CVLElemetWrapper._UNIQUE_KINDS: kind name -> unique name
_UNIQUE_KINDS == [k \in {"Methods"} |-> "methods"]

\* CVLElemetWrapper._NAMED_KINDS
_NAMED_KINDS ==
    {"Definition", "Function", "GhostFunction", "GhostMapping", "Invariant",
     "Rule"}

\* CVLElemetWrapper._EXTRA_DATA_KINDS: kind name -> the data field's name
_EXTRA_DATA_KINDS ==
    [k \in {"HookOpcode", "HookSload", "HookSstore"} |->
        IF k = "HookOpcode" THEN "opcode" ELSE "slot_pattern"]

\* CVLElemetWrapper._KIND_TO_KEYWORD
_KIND_TO_KEYWORD ==
    [k \in _NAMED_KINDS \cup DOMAIN _EXTRA_DATA_KINDS |->
        CASE k = "Definition" -> "definition"
          [] k = "Function" -> "function"
          [] k \in {"GhostFunction", "GhostMapping"} -> "ghost"
          [] k = "Invariant" -> "invariant"
          [] k = "Rule" -> "rule"
          [] k = "HookOpcode" -> "hook"
          [] k = "HookSload" -> "hook Sload"
          [] k = "HookSstore" -> "hook Sstore"]

\* CVLElemetWrapper.supported_kinds()
supported_kinds ==
    DOMAIN _UNIQUE_KINDS \cup _NAMED_KINDS \cup DOMAIN _EXTRA_DATA_KINDS

\* The names getattr(AstKind, .) finds, which are the keys StringToKind
\* holds by __getitem__: the kinds the wrapper supports, the kinds it does
\* not ("Import"), and the class's other attributes ("__doc__")
AstKindAttrs == supported_kinds \cup {"Import", "__doc__"}

\* The words of the identifiers under test: the names above, a word that
\* is no attribute of AstKind ("Nope"), and the names and data of elements
NameAtoms == {"foo", "bar", "baz", "methods"}
WordAtoms == AstKindAttrs \cup {"Nope"} \cup NameAtoms

-----------------------------------------------------------------------------
(* cvlid.CVLIdsParser: the lexer of the cvlobject option *)

\* Characters.  A line is a sequence of one-character strings: the letters
\* "a", "k", "v" ([a-zA-Z_]), the digit "1" (in \w, no start of an
\* identifier), the blank " " (\s), and ":", ".", "[", "]", "(", ")".
\* A word atom of an element identifier ("Rule", "foo", ...) stands for a
\* letter followed by word characters, and is read as a letter is.
Letters == {"a", "k", "v"} \cup WordAtoms
WordChars == Letters \cup {"1"}
IsSpace(c) == c = " "

\* CVLIdsParser._is_only_whitespace(string)
_is_only_whitespace(string) == \A i \in 1..Len(string) : IsSpace(string[i])

\* The place after the longest run of \w from place p on (identifier's \w*
\* followed by \b: no shorter run ends at a word boundary)
RECURSIVE WordEnd(_, _)
WordEnd(line, p) ==
    IF p <= Len(line) /\ line[p] \in WordChars THEN WordEnd(line, p + 1) ELSE p

\* identifier at place p: the place after it, or 0
IdentEnd(line, p) ==
    IF p <= Len(line) /\ line[p] \in Letters
       /\ (p = 1 \/ line[p - 1] \notin WordChars)
    THEN WordEnd(line, p) ELSE 0

\* lookahead: whitespace or the end of the string follows place p - 1
Lookahead(line, p) == p > Len(line) \/ IsSpace(line[p])
\* lookbehind: whitespace or the start of the string precedes place p
Lookbehind(line, p) == p = 1 \/ IsSpace(line[p - 1])

\* (any_combo)* followed by the lookahead, from place p: the place after
\* the match the backtracking search finds first, or 0.  The star takes
\* another group before it stops; a bracket group is lazy, so the nearest
\* closing bracket is tried first.
RECURSIVE CombosEnd(_, _)
RECURSIVE CloseFrom(_, _, _)
CloseFrom(line, q, close) ==
    IF q > Len(line) THEN 0
    ELSE IF line[q] = close /\ CombosEnd(line, q + 1) # 0
         THEN CombosEnd(line, q + 1)
         ELSE CloseFrom(line, q + 1, close)
CombosEnd(line, p) ==
    LET stop == IF Lookahead(line, p) THEN p ELSE 0
        more ==
            IF p > Len(line) THEN 0
            ELSE IF line[p] = "." THEN
                IF IdentEnd(line, p + 1) # 0
                THEN CombosEnd(line, IdentEnd(line, p + 1)) ELSE 0
            ELSE IF line[p] = "[" THEN CloseFrom(line, p + 1, "]")
            ELSE IF line[p] = "(" THEN CloseFrom(line, p + 1, ")")
            ELSE 0
    IN  IF more # 0 THEN more ELSE stop

\* The regex without its groups: identifier(:identifier)? alone
RegexEnd_NoCombos(line, p) ==
    IF ~Lookbehind(line, p) \/ IdentEnd(line, p) = 0 THEN 0
    ELSE LET j == IdentEnd(line, p)
             k == IF j <= Len(line) /\ line[j] = SEPARATOR
                  THEN IdentEnd(line, j + 1) ELSE 0
         IN  IF k # 0 /\ Lookahead(line, k) THEN k
             ELSE IF Lookahead(line, j) THEN j ELSE 0

\* CVLIdsParser.regex matched at place p: the place after the match, or 0
RegexEnd(line, p) ==
    IF ~Lookbehind(line, p) \/ IdentEnd(line, p) = 0 THEN 0
    ELSE LET j == IdentEnd(line, p)
             k == IF j <= Len(line) /\ line[j] = SEPARATOR
                  THEN IdentEnd(line, j + 1) ELSE 0
             group == IF k = 0 THEN 0 ELSE CombosEnd(line, k)
         IN  IF group # 0 THEN group
             ELSE IF Lookahead(line, j) THEN j ELSE 0

\* re.finditer(self.regex, line) from place p on: the matches, in order,
\* as [start, end] with Python's offsets (line[start:end])
RECURSIVE finditer(_, _)
finditer(line, p) ==
    IF p > Len(line) THEN <<>>
    ELSE IF RegexEnd(line, p) # 0
         THEN << [start |-> p - 1, end |-> RegexEnd(line, p) - 1] >>
                  \o finditer(line, RegexEnd(line, p))
         ELSE finditer(line, p + 1)

\* line[start:end]
Slice(line, start, end) == SubSeq(line, start + 1, end)


\* CVLIdsParser.opens_closes and CVLIdsParser.closes
opens_closes == [c \in {"(", "["} |-> IF c = "(" THEN ")" ELSE "]"]
closes == {")", "]"}

\* CVLIdsParser._legal_parenthesis_check(line) from place i on with the
\* given stack: None, or the message
RECURSIVE ParenCheckFrom(_, _, _)
ParenCheckFrom(line, i, stack) ==
    IF i > Len(line) THEN
        IF Len(stack) > 0
        THEN Some([kind |-> "Unclosed", ch |-> stack[Len(stack)], at |-> 0])
        ELSE None
    ELSE IF line[i] \in DOMAIN opens_closes THEN
        ParenCheckFrom(line, i + 1, Append(stack, opens_closes[line[i]]))
    ELSE IF line[i] \in closes THEN
        IF Len(stack) > 0 /\ stack[Len(stack)] = line[i]
        THEN ParenCheckFrom(line, i + 1, SubSeq(stack, 1, Len(stack) - 1))
        ELSE Some([kind |-> "Unmatched", ch |-> line[i], at |-> i])
    ELSE ParenCheckFrom(line, i + 1, stack)
_legal_parenthesis_check(line) == ParenCheckFrom(line, 1, <<>>)

\* The stretches' warnings without the check after the last match
RECURSIVE GapWarnings_NoTail(_, _, _)
GapWarnings_NoTail(line, matches, start) ==
    IF Len(matches) = 0 THEN <<>>
    ELSE
        LET end == matches[1].start
            string == Slice(line, start, end)
        IN  (IF ~_is_only_whitespace(string)
             THEN << [kind |-> "Syntax", start |-> start, end |-> Some(end),
                      string |-> string] >>
             ELSE <<>>) \o GapWarnings_NoTail(line, Tail(matches), matches[1].end)

\* The warnings of CVLIdsParser.__call__ for the stretches before the
\* matches, from offset start on, and then for the stretch after the last
\* match, whose message names its start only (option[start:])
RECURSIVE GapWarnings(_, _, _)
GapWarnings(line, matches, start) ==
    IF Len(matches) = 0 THEN
        LET string == Slice(line, start, Len(line)) IN
        IF ~_is_only_whitespace(string)
        THEN << [kind |-> "Syntax", start |-> start, end |-> None,
                 string |-> string] >>
        ELSE <<>>
    ELSE
        LET end == matches[1].start
            string == Slice(line, start, end)
        IN  (IF ~_is_only_whitespace(string)
             THEN << [kind |-> "Syntax", start |-> start, end |-> Some(end),
                      string |-> string] >>
             ELSE <<>>) \o GapWarnings(line, Tail(matches), matches[1].end)

\* ParsedCVLKeys(keys, warnings)
ParsedCVLKeys(keys, warnings) == [keys |-> keys, warnings |-> warnings]

\* A parser that gives up on a line whose brackets are illegal
CVLIdsParser_AbortOnBrackets(line) ==
    LET parenthesis_check == _legal_parenthesis_check(line)
        matches == finditer(line, 1)
    IN  IF ~IsNone(parenthesis_check)
        THEN ParsedCVLKeys(<<>>, <<Val(parenthesis_check)>>)
        ELSE ParsedCVLKeys([i \in 1..Len(matches) |->
                               Slice(line, matches[i].start, matches[i].end)],
                           GapWarnings(line, matches, 0))

\* CVLIdsParser.__call__(line)
CVLIdsParser(line) ==
    LET parenthesis_check == _legal_parenthesis_check(line)
        matches == finditer(line, 1)
        warnings == (IF ~IsNone(parenthesis_check)
                     THEN <<Val(parenthesis_check)>> ELSE <<>>)
                        \o GapWarnings(line, matches, 0)
        keys == [i \in 1..Len(matches) |->
                    Slice(line, matches[i].start, matches[i].end)]
    IN  ParsedCVLKeys(keys, warnings)

\* CVL_IDS_PARSER = CVLIdsParser()
CVL_IDS_PARSER(line) == CVLIdsParser(line)

\* Lines: up to MaxPieces pieces, each a name, a blank, a kind with a name,
\* a dotted, bracketed or parenthesized group, or a stray character
MaxPieces == 5
NamePieces == {<<"a">>, <<"v", "1">>}
KindNamePieces == {<<"k", ":", "a">>}
GroupPieces == {<<".", "a">>, <<"[", "k", " ", "v", "]">>, <<"(", "v", ")">>}
StrayPieces == {<<"[">>, <<"]">>, <<":">>}
Pieces == NamePieces \cup KindNamePieces \cup GroupPieces \cup StrayPieces
             \cup {<<" ">>}
PieceLines == UNION {[1..n -> Pieces] : n \in 0..MaxPieces}

\* Lines of groups that hold brackets: a bracket opened and closed inside
\* a group, and a bracket left open in one group and closed in another
NestPieces ==
    KindNamePieces
        \cup {<<" ">>, <<"[", "[", "]">>, <<"[", "]", "]">>,
              <<"[", "k", " ", "v", "]">>, <<"(", "[", "v", "]", ")">>}
NestLines == UNION {[1..n -> NestPieces] : n \in 0..MaxPieces}

LxIdle == [pc |-> "idle", pieces |-> <<>>, line |-> <<>>,
           result |-> ParsedCVLKeys(<<>>, <<>>)]
LxCall(ps) == [pc |-> "start", pieces |-> ps, line |-> Flatten(ps),
               result |-> ParsedCVLKeys(<<>>, <<>>)]

\* CVL_IDS_PARSER(line)
LxParse ==
    /\ lx.pc = "start"
    /\ lx' = [lx EXCEPT !.pc = "done", !.result = CVLIdsParser(lx.line)]
    /\ UNCHANGED notLexer

-----------------------------------------------------------------------------
(* cvlid.CVLElemetWrapper and cvlid.CVLElements: elements and identifiers *)

\* An element is [kind, name, extra]: the name of its AstKind, its
\* element_name() (a named kind has one) and the data field that
\* _EXTRA_DATA_KINDS names (a hook has one); the empty string elsewhere
Element(kind, name, extra) == [kind |-> kind, name |-> name, extra |-> extra]

\* key.count(SEPARATOR)
CountSep(key) == Cardinality({i \in 1..Len(key) : key[i] = SEPARATOR})

\* kind_name in _KIND_CONVERTER: Mapping.__contains__ asks __getitem__,
\* which asks getattr(AstKind, kind_name)
InKindConverter(kind_name) ==
    Len(kind_name) = 1 /\ kind_name[1] \in AstKindAttrs

\* CVLElemetWrapper._parse_key(key): (kind name or None, the other string)
_parse_key(key) ==
    IF CountSep(key) = 0 THEN Ret(<<None, key>>)
    ELSE IF CountSep(key) # 1 THEN Raise("ValueError")
    ELSE LET kind_name == Split(key)[1]
             data == Split(key)[2]
         IN  IF ~InKindConverter(kind_name) THEN Raise("ValueError")
             ELSE Ret(<<Some(kind_name), data>>)

\* A to_key that leaves the kind out of a hook's key
to_key_NoKind(el) ==
    IF el.kind \in DOMAIN _UNIQUE_KINDS THEN Ret(<<el.kind>>)
    ELSE IF el.kind \in _NAMED_KINDS THEN Ret(el.name)
    ELSE IF el.kind \in DOMAIN _EXTRA_DATA_KINDS THEN Ret(el.extra)
    ELSE Raise("ValueError")

\* CVLElemetWrapper.to_key
to_key(el) ==
    IF el.kind \in DOMAIN _UNIQUE_KINDS THEN Ret(<<el.kind>>)
    ELSE IF el.kind \in _NAMED_KINDS THEN Ret(el.name)
    ELSE IF el.kind \in DOMAIN _EXTRA_DATA_KINDS
         THEN Ret(<<el.kind, SEPARATOR>> \o el.extra)
    ELSE Raise("ValueError")

\* is_identifier_of from kind_name on, where a named element and a hook
\* answer to the name alone, whatever the identifier's kind
IdentifierAnswer_AnyKind(el, parsed) ==
    LET key_kind_name == parsed.val[1]
        name == parsed.val[2]
        kind_name == <<el.kind>>
    IN  IF parsed.exc # "none" THEN parsed
        ELSE IF el.kind \in DOMAIN _UNIQUE_KINDS THEN
            Ret(/\ name \in {<<_UNIQUE_KINDS[el.kind]>>, kind_name}
                /\ (IsNone(key_kind_name) \/ Val(key_kind_name) = kind_name))
        ELSE IF el.kind \in _NAMED_KINDS THEN
            Ret(name = el.name)
        ELSE IF el.kind \in DOMAIN _EXTRA_DATA_KINDS THEN
            Ret(el.extra = name)
        ELSE Ret(FALSE)

\* is_identifier_of from kind_name on (lines 500-521), with the outcome
\* of self._parse_key(key)
IdentifierAnswer(el, parsed) ==
    LET key_kind_name == parsed.val[1]
        name == parsed.val[2]
        kind_name == <<el.kind>>
    IN  IF parsed.exc # "none" THEN parsed
        ELSE IF el.kind \in DOMAIN _UNIQUE_KINDS THEN
            Ret(/\ name \in {<<_UNIQUE_KINDS[el.kind]>>, kind_name}
                /\ (IsNone(key_kind_name) \/ Val(key_kind_name) = kind_name))
        ELSE IF el.kind \in _NAMED_KINDS THEN
            Ret(/\ name = el.name
                /\ (IsNone(key_kind_name) \/ Val(key_kind_name) = kind_name))
        ELSE IF el.kind \in DOMAIN _EXTRA_DATA_KINDS THEN
            IF IsNone(key_kind_name) THEN Ret(FALSE)
            ELSE Ret(Val(key_kind_name) = kind_name /\ el.extra = name)
        ELSE Ret(FALSE)

\* CVLElemetWrapper.is_identifier_of(key)
is_identifier_of(el, key) == IdentifierAnswer(el, _parse_key(key))

\* Elements: every supported kind, with a name or a data field drawn from
\* two strings
ElementNames == {<<"foo">>, <<"bar">>}
Elements ==
    {Element(k, n, <<>>) : k \in _NAMED_KINDS, n \in ElementNames}
        \cup {Element(k, <<>>, x) : k \in DOMAIN _EXTRA_DATA_KINDS,
                                    x \in ElementNames}
        \cup {Element(k, <<>>, <<>>) : k \in DOMAIN _UNIQUE_KINDS}

\* Identifiers: a bare word, "<word>:<word>" for a kind or another word,
\* an identifier with an empty side, and identifiers with two separators
BareIds == {<<w>> : w \in NameAtoms \cup {"Rule", "Methods", "HookSload"}}
PrefixedIds ==
    {<<k, SEPARATOR, w>> : k \in WordAtoms \ {"baz", "bar"},
                           w \in {"foo", "bar", "methods", "Methods"}}
OddIds ==
    {<<SEPARATOR, "foo">>, <<"Rule", SEPARATOR>>,
     <<"Rule", SEPARATOR, "foo", SEPARATOR, "bar">>,
     <<"HookSload", SEPARATOR, "foo", SEPARATOR>>,
     <<"HookSload", SEPARATOR, "HookSload", SEPARATOR, "foo">>}
Identifiers == BareIds \cup PrefixedIds \cup OddIds

\* CVLElements.from_file(filename, raise_on_multiple_matches) and
\* CVLElements.__init__, on the elements parse(filename) returns: the
\* wrapped elements
from_file(parsed) ==
    IF Len(parsed) = 0 THEN Raise("ValueError")
    ELSE IF \E i \in 1..Len(parsed) : parsed[i].kind \notin supported_kinds
         THEN Raise("ValueError")
    ELSE Ret(parsed)

\* CVLElements.__getitem__ from the answers of the elements on (lines
\* 557-563): the first exception an element raised; else the matches.
\* With several matches and raise_on_multiple_matches, the ValueError's
\* message reads self._name, which no CVLElements has: AttributeError
MatchOf(elements, answers, raise_on_multiple_matches) ==
    LET raising == {i \in 1..Len(elements) : answers[i].exc # "none"}
        matches == {i \in 1..Len(elements) : answers[i] = Ret(TRUE)}
    IN  IF raising # {}
        THEN answers[CHOOSE i \in raising : \A j \in raising : i <= j]
        ELSE IF matches = {} THEN Raise("KeyError")
        ELSE IF Cardinality(matches) > 1 /\ raise_on_multiple_matches
             THEN Raise("AttributeError")
        ELSE Ret(elements[CHOOSE i \in matches : \A j \in matches : i <= j])

\* CVLElements.__getitem__(key)
CVLElements__getitem__(elements, key, raise_on_multiple_matches) ==
    MatchOf(elements,
            [i \in 1..Len(elements) |-> is_identifier_of(elements[i], key)],
            raise_on_multiple_matches)

\* Mapping.get on __getitem__'s outcome: KeyError, and no other
\* exception, becomes None
MappingGet(item) ==
    IF item.exc = "KeyError" THEN Ret(None)
    ELSE IF item.exc = "none" THEN Ret(Some(item.val))
    ELSE item

\* elements.get(key)
CVLElements_get(elements, key, raise_on_multiple_matches) ==
    MappingGet(CVLElements__getitem__(elements, key, raise_on_multiple_matches))

\* A CVLElements made of the elements parse(filename) returns, iterated
\* (CVLElements.__iter__), and every key it yields looked up in it: the
\* exception of from_file, or the keys with what __getitem__ gave
IterAndLookup(file, raise_on_multiple_matches) ==
    IF file.exc # "none" THEN file
    ELSE Ret([i \in 1..Len(file.val) |->
                [key |-> to_key(file.val[i]).val,
                 item |-> CVLElements__getitem__(
                              file.val, to_key(file.val[i]).val,
                              raise_on_multiple_matches)]])

\* dict keys: the first occurrence of every member of a sequence, in order
RECURSIVE DictKeys(_)
DictKeys(q) ==
    IF Len(q) = 0 THEN <<>>
    ELSE LET front == DictKeys(SubSeq(q, 1, Len(q) - 1))
         IN  IF \E i \in 1..Len(front) : front[i] = q[Len(q)]
             THEN front ELSE Append(front, q[Len(q)])

\* The outcome of a directive's run: the exception its handler caught and
\* returned as a lone warning node ("none": none was raised), the
\* elements whose nodes or text it returned, and the warnings it logged
RunResult(exc, emitted, logged) ==
    [exc |-> exc, emitted |-> emitted, logged |-> logged]
MissingWarning(name) == [kind |-> "Missing", name |-> name]

\* CVLDomain.directives (its keys)
CVLDomain_directives ==
    {"rule", "invariant", "function", "definition", "hook", "ghost", "spec"}

\* CVLElemetWrapper.keyword
keyword(el) ==
    IF el.kind \notin DOMAIN _KIND_TO_KEYWORD THEN Raise("KeyError")
    ELSE Ret(_KIND_TO_KEYWORD[el.kind])

\* CVLElementToArgs.directive_name, on which generate() depends
directive_name(el) ==
    IF el.kind \notin DOMAIN _KIND_TO_KEYWORD THEN Raise("KeyError")
    ELSE IF _KIND_TO_KEYWORD[el.kind] \notin CVLDomain_directives
         THEN Raise("ValueError")
    ELSE Ret(<<_domain, ":", _KIND_TO_KEYWORD[el.kind]>>)

\* The loop "for element in elements.values()" of AutoSpecDoc.run, from
\* the i-th of the values on: each value is fetched (for a dict it is
\* there; for a CVLElements it is looked up by its key), then generated
\* (CVLElementToArgs.directive_name raises for a kind without a keyword
\* and for a keyword without a directive) and run.  The nodes of an
\* element's CVLObject stand as the element.
RECURSIVE AddDescriptions(_, _, _, _)
AddDescriptions(fetch, i, emitted, logged) ==
    IF i > Len(fetch) THEN RunResult("none", emitted, logged)
    ELSE IF fetch[i].exc # "none" THEN RunResult(fetch[i].exc, <<>>, logged)
    ELSE IF fetch[i].val.kind \notin DOMAIN _KIND_TO_KEYWORD
         THEN RunResult("KeyError", <<>>, logged)
    ELSE IF _KIND_TO_KEYWORD[fetch[i].val.kind] \notin CVLDomain_directives
         THEN RunResult("ValueError", <<>>, logged)
    ELSE AddDescriptions(fetch, i + 1, Append(emitted, fetch[i].val), logged)

\* The values of "for element in elements.values()" for a CVLElements:
\* each element's key, looked up
ValueAt(elements, key) ==
    IF key.exc # "none" THEN key
    ELSE CVLElements__getitem__(elements, key.val, TRUE)

\* AutoSpecDoc.run from the dict of the requested keys on (lines
\* 140-165), with what elements.get gave for each key: the first
\* exception of a get; else the dict, which holds each key once.  The
\* warning about a missing element reads self.filename, which no
\* AutoSpecDoc has: AttributeError, before anything is logged.
RunOnKeys(keys, got, logged) ==
    LET raising == {i \in 1..Len(keys) : got[i].exc # "none"}
        first == {i \in 1..Len(keys) : \A j \in 1..(i - 1) : keys[j] # keys[i]}
        nth(n) == CHOOSE i \in first : Cardinality({j \in first : j < i}) = n - 1
    IN  IF raising # {}
        THEN RunResult(got[CHOOSE i \in raising : \A j \in raising : i <= j].exc,
                       <<>>, logged)
        ELSE IF \E i \in first : IsNone(got[i].val)
             THEN RunResult("AttributeError", <<>>, logged)
        ELSE AddDescriptions([n \in 1..Cardinality(first) |->
                                 Ret(Val(got[nth(n)].val))],
                             1, <<>>, logged)

\* AutoSpecDoc.run from CVLElements.from_file on (lines 138-165), with
\* the keys and the warnings of the lexer (keys: None when no cvlobject
\* option was given)
RunOnFile(file, keys, logged) ==
    IF file.exc # "none" THEN RunResult(file.exc, <<>>, logged)
    ELSE IF IsNone(keys)
         THEN AddDescriptions([i \in 1..Len(file.val) |->
                                  ValueAt(file.val, to_key(file.val[i]))],
                              1, <<>>, logged)
    ELSE RunOnKeys(Val(keys),
                   [i \in 1..Len(Val(keys)) |->
                       CVLElements_get(file.val, Val(keys)[i], TRUE)],
                   logged)

\* AutoSpecDoc.run after the lexer (lines 135-167)
RunOnLexed(parsed, lexed) ==
    RunOnFile(from_file(parsed), Some(lexed.keys), lexed.warnings)

\* AutoSpecDoc.run from "desired elements" on (lines 129-167), with the
\* elements parse(filename) returns and the cvlobject option.  The nodes
\* of the spec's own directive precede the elements' and are left out.
AutoSpecDoc_run(parsed, cvlobject_option) ==
    IF ~IsNone(cvlobject_option) /\ Len(Val(cvlobject_option)) > 0
    THEN RunOnLexed(parsed, CVL_IDS_PARSER(Val(cvlobject_option)))
    ELSE RunOnFile(from_file(parsed), None, <<>>)

\* str.split(): the stretches of a string between its blanks
RECURSIVE SplitBlanks(_, _)
SplitBlanks(string, word) ==
    IF Len(string) = 0 THEN (IF Len(word) = 0 THEN <<>> ELSE <<word>>)
    ELSE IF IsSpace(string[1])
         THEN (IF Len(word) = 0 THEN <<>> ELSE <<word>>)
                  \o SplitBlanks(Tail(string), <<>>)
    ELSE SplitBlanks(Tail(string), Append(word, string[1]))

\* CVLIncludeReader._get_cvlelement_name(cvlelement): ast.name, which a
\* named element has, or METHODS for the methods block; None otherwise
_get_cvlelement_name(el) ==
    IF el.kind \in _NAMED_KINDS THEN Some(el.name)
    ELSE IF el.kind \in DOMAIN _UNIQUE_KINDS THEN Some(<<"methods">>)
    ELSE None

\* The loop over the parsed elements of cvlobject_filter, from the i-th
\* on: cvls maps each requested name to the element found for it
RECURSIVE FillCvls(_, _, _, _)
FillCvls(parsed, i, names, cvls) ==
    IF i > Len(parsed) THEN Ret(cvls)
    ELSE LET name == _get_cvlelement_name(parsed[i])
             at == {n \in 1..Len(names) : Some(names[n]) = name}
         IN  IF at = {} THEN FillCvls(parsed, i + 1, names, cvls)
             ELSE LET n == CHOOSE n \in at : TRUE
                  IN  IF ~IsNone(cvls[n]) THEN Raise("ValueError")
                      ELSE FillCvls(parsed, i + 1, names,
                                    [cvls EXCEPT ![n] = Some(parsed[i])])

\* CVLIncludeReader.cvlobject_filter within CVLInclude.run, which catches
\* what the filter raises, with the elements parse returns and the
\* cvlobject option.  The text of an element stands as the element, and
\* the whole file's lines as all of its elements.
CVLInclude_run(parsed, cvlobject_option) ==
    LET given == ~IsNone(cvlobject_option) /\ Len(Val(cvlobject_option)) > 0
        names == DictKeys(SplitBlanks(Val(cvlobject_option), <<>>))
        filled == FillCvls(parsed, 1, names, [n \in 1..Len(names) |-> None])
        cvls == filled.val
        missing == SelectSeq([n \in 1..Len(names) |->
                                 [name |-> names[n], el |-> cvls[n]]],
                             LAMBDA c : IsNone(c.el))
        kept == SelectSeq([n \in 1..Len(names) |->
                              [name |-> names[n], el |-> cvls[n]]],
                          LAMBDA c : ~IsNone(c.el))
    IN  IF ~given THEN RunResult("none", parsed, <<>>)
        ELSE IF Len(parsed) = 0 THEN RunResult("ValueError", <<>>, <<>>)
        ELSE IF filled.exc # "none" THEN RunResult(filled.exc, <<>>, <<>>)
        ELSE RunResult("none",
                       [n \in 1..Len(kept) |-> Val(kept[n].el)],
                       [n \in 1..Len(missing) |->
                           MissingWarning(missing[n].name)])

\* Spec files: up to MaxElements elements
MaxElements == 2
FileElements ==
    {Element("Rule", <<"foo">>, <<>>), Element("Function", <<"foo">>, <<>>),
     Element("Rule", <<"bar">>, <<>>), Element("HookSstore", <<>>, <<"foo">>),
     Element("Methods", <<>>, <<>>)}
Files == UNION {[1..n -> FileElements] : n \in 0..MaxElements}
\* Spec files whose elements are looked up by their keys: every kind of
\* element, and a rule with the name of the methods block
LookupFiles ==
    UNION {[1..n -> Elements \cup {Element("Rule", <<"methods">>, <<>>)}] :
              n \in 0..MaxElements}

\* cvlobject options: none, or up to MaxKeys identifiers with a blank
\* between them: names, "<kind>:<name>", an identifier with a word that
\* is no kind before its separator, and one with two separators
MaxKeys == 3
RequestIds ==
    {<<"foo">>, <<"bar">>, <<"baz">>, <<"methods">>,
     <<"Rule", SEPARATOR, "foo">>, <<"HookSstore", SEPARATOR, "foo">>,
     <<"Nope", SEPARATOR, "foo">>,
     <<"HookSstore", SEPARATOR, "foo", "[", SEPARATOR, "]">>}
RECURSIVE JoinBlank(_)
JoinBlank(ids) ==
    IF Len(ids) = 0 THEN <<>>
    ELSE IF Len(ids) = 1 THEN ids[1]
    ELSE ids[1] \o <<" ">> \o JoinBlank(Tail(ids))
Options ==
    {None} \cup {Some(JoinBlank(ids)) :
                    ids \in UNION {[1..n -> RequestIds] : n \in 1..MaxKeys}}

NoElement == Element("", <<>>, <<>>)
CvIdle == [pc |-> "idle", op |-> "", element |-> NoElement, key |-> <<>>,
           result |-> Ret(FALSE), parsed |-> <<>>, option |-> None,
           run |-> RunResult("none", <<>>, <<>>),
           raise_on_multiple_matches |-> FALSE, lookups |-> Ret(<<>>)]
CvMatchCall(el, key) ==
    [CvIdle EXCEPT !.pc = "start", !.op = "is_identifier_of",
                   !.element = el, !.key = key]
CvRunCall(op, parsed, option) ==
    [CvIdle EXCEPT !.pc = "start", !.op = op, !.parsed = parsed,
                   !.option = option]
CvNameCall(el) ==
    [CvIdle EXCEPT !.pc = "start", !.op = "directive_name", !.element = el]
CvLookupCall(parsed, raise_on_multiple_matches) ==
    [CvIdle EXCEPT !.pc = "start", !.op = "lookup", !.parsed = parsed,
                   !.raise_on_multiple_matches = raise_on_multiple_matches]

\* The autospec directive
AutoSpecRun ==
    /\ cv.pc = "start"
    /\ cv.op = "autospec"
    /\ cv' = [cv EXCEPT !.pc = "done",
                        !.run = AutoSpecDoc_run(cv.parsed, cv.option)]
    /\ UNCHANGED notIds

\* The cvlinclude directive
CVLIncludeRun ==
    /\ cv.pc = "start"
    /\ cv.op = "cvlinclude"
    /\ cv' = [cv EXCEPT !.pc = "done",
                        !.run = CVLInclude_run(cv.parsed, cv.option)]
    /\ UNCHANGED notIds

\* CVLElementToArgs(element, ...).directive_name
DirectiveName ==
    /\ cv.pc = "start"
    /\ cv.op = "directive_name"
    /\ cv' = [cv EXCEPT !.pc = "done", !.result = directive_name(cv.element)]
    /\ UNCHANGED notIds

\* for key in elements: elements[key]
IterLookup ==
    /\ cv.pc = "start"
    /\ cv.op = "lookup"
    /\ cv' = [cv EXCEPT !.pc = "done",
                        !.lookups = IterAndLookup(from_file(cv.parsed),
                                                  cv.raise_on_multiple_matches)]
    /\ UNCHANGED notIds

\* element.is_identifier_of(key)
IdMatch ==
    /\ cv.pc = "start"
    /\ cv.op = "is_identifier_of"
    /\ cv' = [cv EXCEPT !.pc = "done",
                        !.result = is_identifier_of(cv.element, cv.key)]
    /\ UNCHANGED notIds

-----------------------------------------------------------------------------
(* Canonicalization of the spellings of a file's path *)

\* Files of the code directory: paths of up to MaxDepth parts
MaxDepth == 3
PathParts == {"s1", "s2", "d"}
FilePaths == UNION {[1..n -> PathParts] : n \in 1..MaxDepth}

\* The spellings of a file's path (get_abs_path's examples): absolute,
\* under the code path override; through the remapping key; relative
Spellings == {"absolute", "remapped", "relative"}
Spell(file, spelling) ==
    CASE spelling = "absolute" -> <<"/">> \o file
      [] spelling = "remapped" -> <<"@">> \o file
      [] spelling = "relative" -> file

CpIdle == [pc |-> "idle", file |-> <<>>, raw |-> <<>>, other |-> <<>>,
           name |-> <<>>, other_name |-> <<>>, again |-> <<>>]
CpCall(file, a, b) ==
    [CpIdle EXCEPT !.pc = "start", !.file = file, !.raw = Spell(file, a),
                   !.other = Spell(file, b)]

\* canonical_spec_name_from_filepath on two spellings
Canonicalize ==
    /\ cp.pc = "start"
    /\ cp' = [cp EXCEPT !.pc = "named",
                        !.name = canonical_spec_name_from_filepath(Some(cp.raw)),
                        !.other_name =
                            canonical_spec_name_from_filepath(Some(cp.other))]
    /\ UNCHANGED notPaths

\* canonical_spec_name_from_filepath on a canonical name
Recanonicalize ==
    /\ cp.pc = "named"
    /\ cp' = [cp EXCEPT !.pc = "done",
                        !.again = canonical_spec_name_from_filepath(Some(cp.name))]
    /\ UNCHANGED notPaths

-----------------------------------------------------------------------------
(* The code-link role on drawn references *)

\* Files of the code directory whose names may hold a blank
LinkParts == {"d", "a b"}
LinkFiles == UNION {[1..n -> LinkParts] : n \in 1..MaxDepth}
Titles == {<<"t">>, <<"a b">>}

\* Remote urls: https and ssh, with and without the .git ending, on
\* GitHub and elsewhere
RemoteUrls ==
    {<<"https://", "github.com", "/", "Certora", "/", "x", ".git">>,
     <<"https://", "github.com", "/", "Certora", "/", "x">>,
     <<"https://", "github.com", "/", "Certora", "/", "x", "/">>,
     <<"git", "@", "github.com", ":", "Certora", "/", "x", ".git">>,
     <<"git", "@", "github.com", ":", "Certora", "/", "x">>,
     <<"http://", "github.com", "/", "Certora", "/", "x", ".git">>,
     <<"https://", "gitlab.com", "/", "Certora", "/", "x", ".git">>}

\* The working directory of a file's repository: none, the source
\* directory or the code directory
WorkingDirs == {None, Some(srcdir), Some(srcdir \o _code_path_override)}

FileSystems ==
    [exists : BOOLEAN, is_dir : BOOLEAN, working_dir : WorkingDirs,
     url : RemoteUrls]

LkCall(title, target, link_to_github, fs) ==
    [pc |-> "link", title |-> title, target |-> target,
     link_to_github |-> link_to_github, fs |-> fs,
     result |-> Logged("none", <<>>, <<>>)]

\* The role processes a reference
ProcessLink ==
    /\ cp.pc = "link"
    /\ cp' = [cp EXCEPT !.pc = "linked",
                        !.result = TutorialsCodeLink_process_link(
                                       cp.title, cp.target,
                                       cp.link_to_github, cp.fs)]
    /\ UNCHANGED notPaths

-----------------------------------------------------------------------------
(* Specifications *)

DomainInit ==
    /\ objects = EmptyTable
    /\ specs = EmptyTable
    /\ curspec = None
    /\ last = LastIdle

\* The domain: directives, host calls and references
Init ==
    /\ nm = NmIdle
    /\ lx = LxIdle
    /\ cv = CvIdle
    /\ cp = CpIdle
    /\ DomainInit

Next ==
    \/ \E d \in Docs, k \in ObjectKinds, so \in SpecOptions, sig \in Sigs :
           CVLObjectRun(d, k, so, sig)
    \/ \E d \in Docs, m \in ModNames, noindex \in BOOLEAN :
           CVLSpecRun(d, m, noindex)
    \/ EndDoc
    \/ \E d \in Docs : ClearDoc(d)
    \/ \E dn \in (SUBSET Docs) \ {{}}, od \in OtherDatas :
           MergeDomaindata(dn, od)
    \/ \E k \in RoleKinds : \E t \in RoleTargets(k), e \in BOOLEAN : XRef(k, t, e)
    \/ \E t \in AnyTargets, sh \in SpecHints, kh \in KindHints :
           ResolveAny(t, sh, kh)
    \/ Return

Spec == Init /\ [][Next]_vars

\* The indices: registrations, host calls and index generation, on a
\* table of at most MaxObjects objects
IndexNext ==
    \/ \E d \in Docs, dir \in IxDirectives :
           /\ Cardinality(DOMAIN objects) < MaxObjects
           /\ CVLObjectRun(d, dir[1], dir[2], dir[3])
    \/ \E d \in Docs : ClearDoc(d)
    \/ \E dn \in (SUBSET Docs) \ {{}}, od \in OtherDatas :
           /\ Cardinality(DOMAIN objects) < MaxObjects
           /\ MergeDomaindata(dn, od)
    \/ \E dn \in IxDocnames : RuleIndexGenerate(dn)
    \/ SpecIndexGenerate
    \/ \E d \in Docs :
           \E keys \in Orders({k \in DOMAIN objects : objects[k].docname = d}) :
               Rebuild(d, keys)
    \/ Return

SpecIndexes == Init /\ [][IndexNext]_vars

\* The naming functions on drawn inputs
NamingInit ==
    /\ nm \in {NmComposeCall(k, s, n) :
                  k \in _cvl_object_types, s \in OptNameStrs, n \in OptNameStrs}
              \cup {NmRawCall(r, k) : r \in RawRefnames, k \in RefTypes}
    /\ lx = LxIdle
    /\ cv = CvIdle
    /\ cp = CpIdle
    /\ DomainInit

NamingNext ==
    \/ NmCompose
    \/ NmDecompose
    \/ NmDecomposeRaw

SpecNaming == NamingInit /\ [][NamingNext]_vars

\* The lexer on drawn lines
LexerInit ==
    /\ lx \in {LxCall(ps) : ps \in PieceLines}
    /\ nm = NmIdle
    /\ cv = CvIdle
    /\ cp = CpIdle
    /\ DomainInit

LexerNext == LxParse

SpecLexer == LexerInit /\ [][LexerNext]_vars

\* The lexer on drawn lines of groups that hold brackets
NestedInit ==
    /\ lx \in {LxCall(ps) : ps \in NestLines}
    /\ nm = NmIdle
    /\ cv = CvIdle
    /\ cp = CpIdle
    /\ DomainInit

NestedNext == LxParse

SpecLexerNested == NestedInit /\ [][NestedNext]_vars

\* Elements and identifiers on drawn inputs
IdsInit ==
    /\ cv \in {CvMatchCall(el, key) : el \in Elements, key \in Identifiers}
              \cup {CvRunCall(op, parsed, option) :
                       op \in {"autospec", "cvlinclude"},
                       parsed \in Files, option \in Options}
              \cup {CvNameCall(el) : el \in Elements}
              \cup {CvLookupCall(parsed, r) : parsed \in LookupFiles, r \in BOOLEAN}
    /\ nm = NmIdle
    /\ lx = LxIdle
    /\ cp = CpIdle
    /\ DomainInit

IdsNext ==
    \/ IdMatch
    \/ DirectiveName
    \/ IterLookup
    \/ AutoSpecRun
    \/ CVLIncludeRun

SpecIds == IdsInit /\ [][IdsNext]_vars

\* Canonicalization on drawn files and spellings
PathsInit ==
    /\ cp \in {CpCall(f, a, b) : f \in FilePaths, a \in Spellings, b \in Spellings}
    /\ nm = NmIdle
    /\ lx = LxIdle
    /\ cv = CvIdle
    /\ DomainInit

PathsNext ==
    \/ Canonicalize
    \/ Recanonicalize

SpecPaths == PathsInit /\ [][PathsNext]_vars

\* The code-link role on drawn references and file systems
LinksInit ==
    /\ cp \in {LkCall(title, Spell(f, a), g, fs) :
                  title \in Titles, f \in LinkFiles, a \in Spellings,
                  g \in BOOLEAN, fs \in FileSystems}
    /\ nm = NmIdle
    /\ lx = LxIdle
    /\ cv = CvIdle
    /\ DomainInit

LinksNext == ProcessLink

SpecLinks == LinksInit /\ [][LinksNext]_vars

-----------------------------------------------------------------------------
(* Properties of the naming functions (under SpecNaming) *)

\* The combinations to_refname is written for: a spec has a spec path and
\* no name, a property has a name and no spec path, every other kind has a
\* name and possibly a spec path
Supported(kind, spec, name) ==
    IF kind = SPECFILE THEN ~IsNone(spec) /\ IsNone(name)
    ELSE IF kind = "property" THEN IsNone(spec) /\ ~IsNone(name)
    ELSE ~IsNone(name)

\* C1: for every supported kind, spec path (or none) and name (or none),
\* to_refname succeeds and spec_and_rulename_from_ref of its result, with
\* the same kind, returns exactly (kind, spec, name).
C1_RoundTrip ==
    (nm.op = "compose" /\ nm.pc = "done" /\ Supported(nm.kind, nm.spec, nm.name))
        => /\ nm.composed.exc = "none"
           /\ nm.decomposed = Ret(<<nm.kind, nm.spec, nm.name>>)

\* A refname the decomposition has to reject, told by counting separators
Malformed(refname, reftype) ==
    \/ Len(refname) = 0
    \/ NParts(refname) < 3
    \/ PartAt(refname, 1) # <<_domain>>
    \/ \A k \in _cvl_object_types : PartAt(refname, 2) # <<k>>
    \/ (reftype \notin {SPECFILE, "property"} /\ NParts(refname) > 4)

\* C10: spec_and_rulename_from_ref raises ValueError, and returns nothing,
\* whenever the refname is empty, has fewer than 3 parts, has a first part
\* other than 'cvl', has a second part that is not an object kind, or (for
\* kinds other than spec and property) has more than 4 parts.
C10_DecompositionFails ==
    (nm.pc = "done" /\ nm.decomposed # Unset /\ Malformed(nm.refname, nm.kind))
        => nm.decomposed = Raise("ValueError")

\* A refname of five parts with the domain token and a kind in front was
\* decomposed as a rule and rejected
C10_TooManyPartsRejected ==
    /\ nm.pc = "done"
    /\ nm.op = "raw"
    /\ nm.kind = "rule"
    /\ NParts(nm.refname) > 4
    /\ PartAt(nm.refname, 1) = <<_domain>>
    /\ PartAt(nm.refname, 2) = <<"rule">>
    /\ nm.decomposed = Raise("ValueError")

\* C11: every refname to_refname returns has the part count of its kind:
\* 3 parts for spec, 3 parts for property, and for every other kind 3 parts
\* without a spec path and 4 parts with one.
C11_PartCount ==
    (nm.op = "compose" /\ nm.composed.exc = "none")
        => NParts(nm.composed.val) =
               IF nm.kind \in {SPECFILE, "property"} THEN 3
               ELSE IF IsNone(nm.spec) THEN 3 ELSE 4

-----------------------------------------------------------------------------
(* Properties of the lexer (under SpecLexer) *)

\* The runs of pieces between blanks
RECURSIVE Chunks(_, _)
Chunks(ps, cur) ==
    IF Len(ps) = 0 THEN (IF Len(cur) = 0 THEN <<>> ELSE <<cur>>)
    ELSE IF ps[1] = <<" ">>
         THEN (IF Len(cur) = 0 THEN <<>> ELSE <<cur>>) \o Chunks(Tail(ps), <<>>)
         ELSE Chunks(Tail(ps), Append(cur, ps[1]))
\* The token grammar: a name, or a kind with a name followed by groups
IsToken(chunk) ==
    \/ Len(chunk) = 1 /\ chunk[1] \in NamePieces
    \/ /\ chunk[1] \in KindNamePieces
       /\ \A i \in 2..Len(chunk) : chunk[i] \in GroupPieces
WellFormed(ps) ==
    \A i \in 1..Len(Chunks(ps, <<>>)) : IsToken(Chunks(ps, <<>>)[i])

\* C12: for a line of whitespace-separated identifiers of the token
\* grammar CVLIdsParser returns exactly those identifiers as keys, in input
\* order, and no warnings.
C12_LexerCorrect ==
    (lx.pc = "done" /\ WellFormed(lx.pieces))
        => /\ lx.result.keys =
                  [i \in 1..Len(Chunks(lx.pieces, <<>>)) |->
                      Flatten(Chunks(lx.pieces, <<>>)[i])]
           /\ lx.result.warnings = <<>>

\* The line "a k:a[k v]" was parsed into its two identifiers
C12_TwoIdentifiersParsed ==
    /\ lx.pc = "done"
    /\ lx.pieces = << <<"a">>, <<" ">>, <<"k", ":", "a">>,
                      <<"[", "k", " ", "v", "]">> >>
    /\ lx.result.keys = << <<"a">>, <<"k", ":", "a", "[", "k", " ", "v", "]">> >>
    /\ lx.result.warnings = <<>>

\* Bracket balance, by cancelling adjacent pairs of the brackets of a line
IsBracket(c) == c \in {"(", ")", "[", "]"}
RECURSIVE Cancel(_)
Cancel(bs) ==
    IF \E i \in 1..(Len(bs) - 1) : <<bs[i], bs[i + 1]>> \in {<<"(", ")">>, <<"[", "]">>}
    THEN LET i == CHOOSE i \in 1..(Len(bs) - 1) :
                      <<bs[i], bs[i + 1]>> \in {<<"(", ")">>, <<"[", "]">>}
         IN  Cancel(SubSeq(bs, 1, i - 1) \o SubSeq(bs, i + 2, Len(bs)))
    ELSE bs
Balanced(line) == Cancel(SelectSeq(line, IsBracket)) = <<>>
IsBracketWarning(w) == w.kind \in {"Unclosed", "Unmatched"}
IsSyntaxWarning(w) == w.kind = "Syntax"

\* A truncated bracket group: a kind with a name, an opening bracket, and
\* names separated by single blanks, two at least
Truncated(ps) ==
    /\ Len(ps) >= 5
    /\ ps[1] \in KindNamePieces
    /\ ps[2] = <<"[">>
    /\ \A i \in 3..Len(ps) :
           IF i % 2 = 1 THEN ps[i] \in NamePieces ELSE ps[i] = <<" ">>
    /\ Len(ps) % 2 = 1

\* C13: a bracket imbalance does not abort the lexer: the parser records
\* one bracket warning, first, and still scans to the end of the line (a
\* name that ends the line after a blank is a key); a truncated bracket
\* group gives the 'Unclosed ]' warning, a syntax warning for the span up to
\* the names that still match, and those names as keys.
C13_ImbalanceDoesNotAbort ==
    (lx.pc = "done" /\ ~Balanced(lx.line))
        => LET w == lx.result.warnings
               ps == lx.pieces
               n == Len(ps)
           IN  /\ Len(w) >= 1
               /\ IsBracketWarning(w[1])
               /\ \A i \in 2..Len(w) : IsSyntaxWarning(w[i])
               /\ (n >= 2 /\ ps[n] \in NamePieces /\ ps[n - 1] = <<" ">>)
                      => /\ Len(lx.result.keys) >= 1
                         /\ lx.result.keys[Len(lx.result.keys)] = ps[n]
               /\ Truncated(ps)
                      => /\ w = << [kind |-> "Unclosed", ch |-> "]", at |-> 0],
                                   [kind |-> "Syntax", start |-> 0,
                                    end |-> Some(Len(Flatten(SubSeq(ps, 1, 4)))),
                                    string |-> Flatten(SubSeq(ps, 1, 4))] >>
                         /\ lx.result.keys = [i \in 1..((n - 3) \div 2) |-> ps[2 * i + 3]]

\* The truncated group "k:a[a v1" was parsed: both warnings and the key v1
C13_TruncatedGroupParsed ==
    /\ lx.pc = "done"
    /\ lx.pieces = << <<"k", ":", "a">>, <<"[">>, <<"a">>, <<" ">>, <<"v", "1">> >>
    /\ Len(lx.result.warnings) = 2
    /\ lx.result.warnings[1].kind = "Unclosed"
    /\ lx.result.warnings[2].kind = "Syntax"
    /\ lx.result.keys = << <<"v", "1">> >>

\* The stretches of the line around the matched tokens, in order, and
\* those that are not only whitespace
Stretches(line) ==
    LET ms == finditer(line, 1) IN
    [i \in 1..(Len(ms) + 1) |->
        [start |-> IF i = 1 THEN 0 ELSE ms[i - 1].end,
         end |-> IF i = Len(ms) + 1 THEN Len(line) ELSE ms[i].start,
         tail |-> i = Len(ms) + 1]]
NotBlank(line, st) == ~_is_only_whitespace(Slice(line, st.start, st.end))
RECURSIVE Keep(_, _)
Keep(line, sts) ==
    IF Len(sts) = 0 THEN <<>>
    ELSE (IF NotBlank(line, sts[1]) THEN <<sts[1]>> ELSE <<>>)
             \o Keep(line, Tail(sts))

\* C14: every stretch of the line before, between or after the matched
\* tokens that is not only whitespace yields one warning naming its start
\* and end offsets and quoting the stretch; a stretch of only whitespace
\* yields none.
C14_StretchWarnings ==
    lx.pc = "done"
        => LET w == SelectSeq(lx.result.warnings, IsSyntaxWarning)
               sts == Keep(lx.line, Stretches(lx.line))
           IN  /\ Len(w) = Len(sts)
               /\ \A i \in 1..Len(sts) :
                      /\ w[i].start = sts[i].start
                      /\ w[i].end = Some(sts[i].end)
                      /\ w[i].string = Slice(lx.line, sts[i].start, sts[i].end)

\* C14 (amended): as C14, but the warning for the stretch after the last
\* token names its start offset only.
C14_StretchWarningsTailStartOnly ==
    lx.pc = "done"
        => LET w == SelectSeq(lx.result.warnings, IsSyntaxWarning)
               sts == Keep(lx.line, Stretches(lx.line))
           IN  /\ Len(w) = Len(sts)
               /\ \A i \in 1..Len(sts) :
                      /\ w[i].start = sts[i].start
                      /\ w[i].end = IF sts[i].tail THEN None ELSE Some(sts[i].end)
                      /\ w[i].string = Slice(lx.line, sts[i].start, sts[i].end)

\* The line "] a ]" was parsed: a warning for the stretch before the key
\* and one for the stretch after it
C14_WarningsAroundKey ==
    /\ lx.pc = "done"
    /\ lx.pieces = << <<"]">>, <<" ">>, <<"a">>, <<" ">>, <<"]">> >>
    /\ lx.result.keys = << <<"a">> >>
    /\ SelectSeq(lx.result.warnings, IsSyntaxWarning) =
           << [kind |-> "Syntax", start |-> 0, end |-> Some(2),
               string |-> <<"]", " ">>],
              [kind |-> "Syntax", start |-> 3, end |-> None,
               string |-> <<" ", "]">>] >>

\* C27: when the lexer returns no warning for a line, every key it
\* returns is bracket-balanced by itself: each "[" and "(" of the key is
\* closed by its "]" or ")" inside the key, properly nested.
C27_KeysBalanced ==
    (lx.pc = "done" /\ lx.result.warnings = <<>>)
        => \A i \in 1..Len(lx.result.keys) : Balanced(lx.result.keys[i])

-----------------------------------------------------------------------------
(* Properties of elements and identifiers (under SpecIds) *)

\* An identifier's kind prefix (the part before its first separator, None
\* when it has no separator) and its other part
KindPrefix(key) == IF CountSep(key) = 0 THEN None ELSE Some(SplitOnce(key)[1])
NamePart(key) == IF CountSep(key) = 0 THEN key ELSE SplitOnce(key)[2]
\* "<kind>:<data>": a kind's name, one separator, and data
IsKindData(key) ==
    /\ CountSep(key) = 1
    /\ Len(Val(KindPrefix(key))) = 1
    /\ Val(KindPrefix(key))[1] \in supported_kinds
Matched ==
    /\ cv.pc = "done"
    /\ cv.op = "is_identifier_of"

\* C15: for an element of a hook kind, is_identifier_of returns false for
\* every bare name, returns true for no identifier but "<kind>:<data>"
\* with the element's kind and its data field, and for "<kind>:<data>"
\* returns whether both are the element's.
C15_HookIdentifiers ==
    (Matched /\ cv.element.kind \in DOMAIN _EXTRA_DATA_KINDS)
        => LET same == /\ KindPrefix(cv.key) = Some(<<cv.element.kind>>)
                       /\ NamePart(cv.key) = cv.element.extra
           IN  /\ CountSep(cv.key) = 0 => cv.result = Ret(FALSE)
               /\ CountSep(cv.key) > 0 => (cv.result = Ret(TRUE) <=> same)
               /\ IsKindData(cv.key) => cv.result = Ret(same)

\* A store hook was asked for by its kind and slot pattern, and by the
\* load hook's kind with the same pattern
C15_HookMatchedByKindAndData ==
    /\ Matched
    /\ cv.element = Element("HookSstore", <<>>, <<"foo">>)
    /\ \/ cv.key = <<"HookSstore", SEPARATOR, "foo">> /\ cv.result = Ret(TRUE)
       \/ cv.key = <<"HookSload", SEPARATOR, "foo">> /\ cv.result = Ret(FALSE)

\* C16: for an element of a named kind the key is the declared name, and
\* is_identifier_of is true exactly when the identifier's name part is
\* the declared name and the identifier has no kind prefix or has the
\* element's kind as its prefix; a bare name and "<kind>:<name>" get an
\* answer.
C16_NamedIdentifiers ==
    (Matched /\ cv.element.kind \in _NAMED_KINDS)
        => LET same == /\ NamePart(cv.key) = cv.element.name
                       /\ \/ IsNone(KindPrefix(cv.key))
                          \/ KindPrefix(cv.key) = Some(<<cv.element.kind>>)
           IN  /\ to_key(cv.element) = Ret(cv.element.name)
               /\ cv.result = Ret(TRUE) <=> same
               /\ (CountSep(cv.key) = 0 \/ IsKindData(cv.key))
                      => cv.result = Ret(same)

\* A rule was asked for by its name with another kind's prefix, and the
\* answer was false
C16_NamedRejectsOtherKind ==
    /\ Matched
    /\ cv.element = Element("Rule", <<"foo">>, <<>>)
    /\ cv.key = <<"Function", SEPARATOR, "foo">>
    /\ cv.result = Ret(FALSE)

\* A directive has run with a cvlobject option on a file with elements
Ran ==
    /\ cv.pc = "done"
    /\ cv.op \in {"autospec", "cvlinclude"}
    /\ ~IsNone(cv.option)
    /\ Len(cv.parsed) > 0
\* The identifiers asked for, in order, each once: no identifier drawn
\* holds a blank
Requested == DictKeys(SplitBlanks(Val(cv.option), <<>>))
\* The elements of the file an identifier matches: autospec asks
\* is_identifier_of, cvlinclude compares the element's name
MatchesIn(id) ==
    {i \in 1..Len(cv.parsed) :
        IF cv.op = "autospec" THEN is_identifier_of(cv.parsed[i], id) = Ret(TRUE)
        ELSE _get_cvlelement_name(cv.parsed[i]) = Some(id)}
\* Structurally malformed: more than one separator, or a prefix that is
\* no kind
MalformedId(id) ==
    \/ CountSep(id) > 1
    \/ CountSep(id) = 1 /\ ~InKindConverter(Val(KindPrefix(id)))
\* The identifier matches one element, for which the directive has output
Producible(id) ==
    /\ Cardinality(MatchesIn(id)) = 1
    /\ \A i \in MatchesIn(id) :
           cv.op = "autospec" => directive_name(cv.parsed[i]).exc = "none"
ElementOf(id) == cv.parsed[CHOOSE i \in MatchesIn(id) : TRUE]
NamesIn(w) == IF "name" \in DOMAIN w THEN {w.name} ELSE {}
WarnedNames == UNION {NamesIn(cv.run.logged[i]) : i \in 1..Len(cv.run.logged)}

\* C17: when every requested identifier is well formed and either matches
\* no element or matches one, and some match none, the run raises
\* nothing, logs one warning for each identifier that matches none, in
\* order, and returns the elements of the other identifiers in the order
\* they were requested.
C17_MissingWarnedOthersEmitted ==
    LET missing == SelectSeq(Requested, LAMBDA id : MatchesIn(id) = {})
        others == SelectSeq(Requested, LAMBDA id : MatchesIn(id) # {})
    IN  (/\ Ran
         /\ \A n \in 1..Len(Requested) : ~MalformedId(Requested[n])
         /\ \A n \in 1..Len(others) : Producible(others[n])
         /\ Len(missing) > 0)
            => /\ cv.run.exc = "none"
               /\ SelectSeq(cv.run.logged, LAMBDA w : w.kind = "Missing")
                      = [n \in 1..Len(missing) |-> MissingWarning(missing[n])]
               /\ cv.run.emitted = [n \in 1..Len(others) |-> ElementOf(others[n])]

\* C18: when some requested identifier is malformed and every other one
\* matches one element, the run raises nothing, logs a warning naming
\* each malformed identifier, and returns the elements of the other
\* identifiers in the order they were requested.
C18_MalformedWarnedOthersEmitted ==
    LET malformed == SelectSeq(Requested, MalformedId)
        others == SelectSeq(Requested, LAMBDA id : ~MalformedId(id))
    IN  (/\ Ran
         /\ \A n \in 1..Len(others) : Producible(others[n])
         /\ Len(malformed) > 0)
            => /\ cv.run.exc = "none"
               /\ \A n \in 1..Len(malformed) : malformed[n] \in WarnedNames
               /\ cv.run.emitted = [n \in 1..Len(others) |-> ElementOf(others[n])]

\* The elements of the looked-up file that have the key, or are the
\* methods block when the key is its unique name
Keyed(key) ==
    {j \in 1..Len(cv.parsed) :
        \/ to_key(cv.parsed[j]) = Ret(key)
        \/ /\ cv.parsed[j].kind \in DOMAIN _UNIQUE_KINDS
           /\ key = <<_UNIQUE_KINDS[cv.parsed[j].kind]>>}
LookedUp == cv.pc = "done" /\ cv.op = "lookup" /\ cv.lookups.exc = "none"

\* C28: for every element of a supported kind is_identifier_of(to_key) is
\* true, and every key that iterating a CVLElements yields, looked up in
\* it, returns an element with that key.
C28_OwnKeyLookup ==
    /\ (Matched /\ to_key(cv.element) = Ret(cv.key)) => cv.result = Ret(TRUE)
    /\ LookedUp
           => \A i \in 1..Len(cv.lookups.val) :
                  /\ cv.lookups.val[i].item.exc = "none"
                  /\ to_key(cv.lookups.val[i].item.val)
                         = Ret(cv.lookups.val[i].key)

\* C28 (amended): for every element of a supported kind
\* is_identifier_of(to_key) is true; a key that iterating a CVLElements
\* yields, looked up in it, raises when several elements answer to it and
\* the mapping raises on multiple matches, and otherwise returns the first
\* element that answers to it, whose key is the key looked up unless it is
\* the methods block looked up under its name "methods".
C28_OwnKeyLookupUnlessShared ==
    /\ (Matched /\ to_key(cv.element) = Ret(cv.key)) => cv.result = Ret(TRUE)
    /\ LookedUp
           => \A i \in 1..Len(cv.lookups.val) :
                  LET key == cv.lookups.val[i].key
                      item == cv.lookups.val[i].item
                      first == CHOOSE j \in Keyed(key) :
                                   \A o \in Keyed(key) : j <= o
                  IN  IF Cardinality(Keyed(key)) > 1
                         /\ cv.raise_on_multiple_matches
                      THEN item.exc # "none"
                      ELSE /\ item = Ret(cv.parsed[first])
                           /\ \/ to_key(item.val) = Ret(key)
                              \/ /\ item.val.kind \in DOMAIN _UNIQUE_KINDS
                                 /\ key = <<_UNIQUE_KINDS[item.val.kind]>>

\* A file of a rule and a hook was iterated in a mapping that raises on
\* multiple matches, and each of the two keys returned its element
C28_RuleAndHookFound ==
    /\ LookedUp
    /\ cv.raise_on_multiple_matches
    /\ Len(cv.parsed) = 2
    /\ cv.parsed[1].kind = "Rule"
    /\ cv.parsed[2].kind \in DOMAIN _EXTRA_DATA_KINDS
    /\ \A i \in 1..2 : cv.lookups.val[i].item = Ret(cv.parsed[i])

\* C29: for every kind of supported_kinds the keyword is defined and the
\* directive name "cvl:<keyword>" autospec derives from it is a directive
\* of CVLDomain.directives: directive_name raises neither a KeyError nor
\* a ValueError ("Unexpected keyword") for an element of a supported kind.
C29_KindTablesConsistent ==
    (cv.pc = "done" /\ cv.op = "directive_name"
        /\ cv.element.kind \in supported_kinds)
        => /\ keyword(cv.element).exc = "none"
           /\ keyword(cv.element).val \in CVLDomain_directives
           /\ cv.result = Ret(<<_domain, ":", keyword(cv.element).val>>)

-----------------------------------------------------------------------------
(* Properties of canonicalization (under SpecPaths) *)

-----------------------------------------------------------------------------
(* Properties of the domain (under Spec) *)

\* C2: for every kind with a directive and a role, the role reference that
\* gives the kind, the spec path and the name of a directive resolves
\* (resolve_xref returns a node, not None) to the document and anchor the
\* directive registered.
C2_RoleResolvesToDirectiveEntry ==
    (last.op = "spec" \/ (last.op = "object" /\ ~IsNone(last.aux.spec_name)))
        => LET text == IF last.op = "spec" THEN last.key
                       ELSE Val(last.aux.spec_name) \o <<_spec_separator>>
                                \o last.aux.member
               link == process_link(last.kind, FALSE, text, text)
               node == IF link.exc # "none" THEN link
                       ELSE resolve_xref(objects, link.val[2])
           IN  /\ node.exc = "none"
               /\ ~IsNone(node.val)
               /\ Val(node.val).refdoc = last.doc
               /\ Val(node.val).refid = last.out

\* C3: note_object never raises, for any kind: it stores (document,
\* anchor, kind) under the refname; when the refname was registered before
\* it records one duplicate warning naming the previous document, and
\* otherwise no warning.
C3_DuplicateOverwritesAndWarns ==
    last.op \in {"object", "spec"}
        => /\ last.exc = "none"
           /\ last.key \in DOMAIN objects
           /\ objects[last.key] = CVLObjectEntry(last.doc, last.out, last.kind)
           /\ IF last.key \in DOMAIN last.pre_objects
              THEN /\ Len(last.warnings) = 1
                   /\ last.warnings[1].msg = "duplicate"
                   /\ last.warnings[1].other = last.pre_objects[last.key].docname
              ELSE Len(last.warnings) = 0

\* The query of the last "any" reference: the name without a trailing "()",
\* the name without its domain and kind prefix, the kinds searched
QName == IF Len(last.key) >= 2 /\ SubSeq(last.key, Len(last.key) - 1, Len(last.key)) = <<"(", ")">>
         THEN SubSeq(last.key, 1, Len(last.key) - 2) ELSE last.key
QBare == PartAt(QName, NParts(QName))
QKinds ==
    IF NParts(QName) > 1 THEN {PartAt(QName, NParts(QName) - 1)[1]}
    ELSE IF IsNone(last.aux.kind) THEN _cvl_object_types
    ELSE {Val(last.aux.kind)}
QSpec == IF IsNone(last.aux.spec_name) THEN None
         ELSE Some(canonical_spec_name_from_filepath(last.aux.spec_name))

\* The tier of the lookup a registered refname matches at: 1 the name as
\* given, 2 spec-qualified, 3 domain and kind without spec, 4 bare name,
\* 5 no match
Tier(refname) ==
    IF refname = QName THEN 1
    ELSE IF /\ ~IsNone(QSpec)
            /\ \E k \in QKinds :
                 refname = Join(<< <<_domain>>, <<k>>, Val(QSpec), QBare >>)
         THEN 2
    ELSE IF \E k \in QKinds : refname = Join(<< <<_domain>>, <<k>>, QBare >>)
         THEN 3
    ELSE IF PartAt(refname, NParts(refname)) = QBare THEN 4
    ELSE 5
BestTier ==
    CHOOSE t \in 1..5 :
        /\ t = 5 \/ \E r \in DOMAIN objects : Tier(r) = t
        /\ \A r \in DOMAIN objects : Tier(r) >= t

\* C4: find_obj returns only matches of the first tier (name as given,
\* spec-qualified, domain and kind without spec, bare name) that has a
\* match: no match of a lower tier comes with or ahead of a higher one.
C4_OnlyFirstTier ==
    (last.op = "any" /\ last.aux.found.exc = "none")
        => \A i \in 1..Len(last.aux.found.val) :
               Tier(last.aux.found.val[i].name) = BestTier

\* C5: when cvl:<kind>:s1:foo is registered and no other registered element
\* has that kind and name, the lookup of foo qualified by kind and spec,
\* by kind only, and by nothing all return that single refname.
C5_LookupTiering ==
    \A k \in ObjectKinds :
        LET K == Join(<< <<_domain>>, <<k>>, <<"s1">>, <<"foo">> >>) IN
        (/\ last.op = "any"
         /\ last.key = <<"foo">>
         /\ K \in DOMAIN objects
         /\ \A r \in DOMAIN objects \ {K} :
                ~(PartAt(r, 2) = <<k>> /\ PartAt(r, NParts(r)) = <<"foo">>)
         /\ \/ ~IsNone(last.aux.spec_name) /\ last.aux.kind = Some(k)
            \/ IsNone(last.aux.spec_name) /\ last.aux.kind = Some(k)
            \/ IsNone(last.aux.spec_name) /\ IsNone(last.aux.kind))
            => /\ last.aux.found.exc = "none"
               /\ Len(last.aux.found.val) = 1
               /\ last.aux.found.val[1].name = K

\* C6: the role target that omits the spec path, :cvl:<kind>:`foo`,
\* resolves to the element of that kind and name registered with a spec
\* path when it is the only registered element of that kind and name.
C6_SpecOmittedResolves ==
    \A k \in ObjectKinds :
        LET K == Join(<< <<_domain>>, <<k>>, <<"s1">>, <<"foo">> >>) IN
        (/\ last.op = "xref"
         /\ last.kind = k
         /\ last.key = <<"foo">>
         /\ K \in DOMAIN objects
         /\ \A r \in DOMAIN objects \ {K} :
                ~(PartAt(r, 2) = <<k>> /\ PartAt(r, NParts(r)) = <<"foo">>))
            => /\ last.exc = "none"
               /\ ~IsNone(last.out)
               /\ Val(last.out).refdoc = objects[K].docname
               /\ Val(last.out).refid = objects[K].node_id

\* C7: a lookup with several matches is no failure: resolve_any_xref
\* returns a result for every match, in order, the caller records one
\* warning listing every match and uses the first result.
C7_AmbiguityNeverFails ==
    (/\ last.op = "any"
     /\ last.aux.found.exc = "none"
     /\ Cardinality({last.aux.found.val[i].name :
                        i \in 1..Len(last.aux.found.val)}) > 1)
        => LET found == last.aux.found.val IN
           /\ last.exc = "none"
           /\ Len(last.out) = Len(found)
           /\ \A i \in 1..Len(found) :
                  /\ last.out[i].node.refdoc = found[i].obj.docname
                  /\ last.out[i].node.refid = found[i].obj.node_id
           /\ Len(last.warnings) = 1
           /\ Len(last.warnings[1].candidates) = Len(found)
           /\ last.aux.chosen = Some(last.out[1])

\* C8: merge_domaindata leaves every master entry of a document outside
\* docnames as it was, whatever otherdata holds.
C8_MergeFrame ==
    last.op = "merge"
        => \A r \in DOMAIN last.pre_objects :
               last.pre_objects[r].docname \notin last.aux.docnames
                   => /\ r \in DOMAIN objects
                      /\ objects[r] = last.pre_objects[r]

\* C8 (amended): merge_domaindata leaves a master entry of a document
\* outside docnames as it was unless otherdata holds an entry of the same
\* refname whose document is in docnames.
C8_MergeFrameUnlessOverwritten ==
    last.op = "merge"
        => \A r \in DOMAIN last.pre_objects :
               (/\ last.pre_objects[r].docname \notin last.aux.docnames
                /\ ~(/\ r \in DOMAIN last.aux.otherdata.objects
                     /\ last.aux.otherdata.objects[r].docname \in last.aux.docnames))
                   => /\ r \in DOMAIN objects
                      /\ objects[r] = last.pre_objects[r]

\* A merge brought in a worker's entry and the master held an entry of a
\* document outside docnames under another refname
C8_MergedBesideForeignEntry ==
    /\ last.op = "merge"
    /\ \E k \in DOMAIN last.aux.otherdata.objects :
           last.aux.otherdata.objects[k].docname \in last.aux.docnames
    /\ \E r \in DOMAIN last.pre_objects :
           /\ last.pre_objects[r].docname \notin last.aux.docnames
           /\ r \notin DOMAIN last.aux.otherdata.objects

\* C9: after clear_doc(d) no object entry has document d, no spec entry
\* lists a refname that d registered, and the object entries of other
\* documents are unchanged.
C9_ClearDoc ==
    last.op = "clear_doc"
        => /\ \A r \in DOMAIN objects : objects[r].docname # last.doc
           /\ \A m \in DOMAIN specs :
                  \A r \in Range(specs[m].rules_refnames) :
                      ~(/\ r \in DOMAIN last.pre_objects
                        /\ last.pre_objects[r].docname = last.doc)
           /\ \A r \in DOMAIN last.pre_objects :
                  last.pre_objects[r].docname # last.doc
                      => /\ r \in DOMAIN objects
                         /\ objects[r] = last.pre_objects[r]


\* C19: no error raised while a directive or a role of the domain runs
\* (the object directives, the spec directive, the cross-reference roles
\* and their resolution) leaves the handler: every such run ends without
\* an exception.
C19_NoErrorPropagates ==
    last.op \in {"object", "spec", "spec_noindex", "xref", "any"}
        => last.exc = "none"

\* C23: after merge_domaindata(docnames, otherdata) every object entry of
\* otherdata whose document is in docnames, and every spec entry of
\* otherdata whose listed elements are of documents in docnames, is in
\* the master index with the worker's value.
C23_MergeBringsEntries ==
    last.op = "merge"
        => LET od == last.aux.otherdata
               dn == last.aux.docnames
           IN  /\ \A k \in DOMAIN od.objects :
                      od.objects[k].docname \in dn
                          => /\ k \in DOMAIN objects
                             /\ EntryEq(objects[k], od.objects[k])
               /\ \A m \in DOMAIN od.specs :
                      (/\ Len(od.specs[m].rules_refnames) > 0
                       /\ \A r \in Range(od.specs[m].rules_refnames) :
                              /\ r \in DOMAIN od.objects
                              /\ od.objects[r].docname \in dn)
                          => /\ m \in DOMAIN specs
                             /\ specs[m] = od.specs[m]

\* C26: the list find_obj returns holds no refname twice; a lookup that
\* matches one registered object returns a list of length one and is not
\* reported as ambiguous.
C26_FindObjNoDuplicates ==
    (last.op = "any" /\ last.aux.found.exc = "none")
        => LET found == last.aux.found.val IN
           /\ \A i, j \in 1..Len(found) :
                  i # j => found[i].name # found[j].name
           /\ Cardinality({found[i].name : i \in 1..Len(found)}) = 1
                  => /\ Len(found) = 1
                     /\ last.warnings = <<>>

-----------------------------------------------------------------------------
(* Properties of the indices (under SpecIndexes) *)

\* The entries of a content, and what tells an object's entry from the
\* others: its anchor, document and kind
EntriesOf(content) == UNION {Range(content[i][2]) : i \in 1..Len(content)}
Located(content) == {<<e.anchor, e.docname, e.descr>> : e \in EntriesOf(content)}

\* C21: when RuleIndex.generate is given docnames, the index it returns
\* holds exactly the entries of the rules and invariants whose document is
\* one of docnames, and no entry of another document.
C21_RuleIndexOfDocnames ==
    (last.op = "ruleindex" /\ last.exc = "none" /\ ~IsNone(last.aux.docnames))
        => Located(last.out)
               = {<<objects[k].node_id, objects[k].docname, objects[k].objtype>> :
                    k \in {r \in DOMAIN objects :
                              /\ objects[r].objtype \in {"rule", "invariant"}
                              /\ objects[r].docname \in Val(last.aux.docnames)}}

\* C24: RuleIndex.generate returns its letter groups in ascending order of
\* the letter, every entry is in the group of the lower-cased first letter
\* of its displayed name, and the entries of a group are in ascending
\* order of their displayed names.
C24_RuleIndexAlphabetical ==
    (last.op = "ruleindex" /\ last.exc = "none")
        => /\ \A i \in 1..(Len(last.out) - 1) :
                  LetterRank(last.out[i][1]) < LetterRank(last.out[i + 1][1])
           /\ \A i \in 1..Len(last.out) :
                  \A j \in 1..Len(last.out[i][2]) :
                      LowerFirst[last.out[i][2][j].name[1]] = last.out[i][1]
           /\ \A i \in 1..Len(last.out) :
                  \A j \in 1..(Len(last.out[i][2]) - 1) :
                      ~StrLess(last.out[i][2][j + 1].name, last.out[i][2][j].name)

\* C25: in every state that registrations, clear_doc and merge_domaindata
\* lead to, every refname a spec entry lists is a key of the objects
\* table, and SpecIndex.generate does not look up a missing object (it
\* raises no KeyError).
C25_SpecRefnamesAreObjects ==
    /\ \A m \in DOMAIN specs :
           \A r \in Range(specs[m].rules_refnames) : r \in DOMAIN objects
    /\ last.op = "specindex" => last.exc # "KeyError"

\* Two objects tables are equal (dict equality, tuple by tuple)
TableEq(a, b) ==
    /\ DOMAIN a = DOMAIN b
    /\ \A k \in DOMAIN a : EntryEq(a[k], b[k])

-----------------------------------------------------------------------------
(* Properties of the code-link role (under SpecLinks) *)

\* C22: the role returns the title unchanged, with the remote url when
\* link_to_github is set and the lookup returns a url for the resolved
\* path, and with the local file URI of the resolved path in every other
\* case
C22_CodeLinkTarget ==
    cp.pc = "linked" =>
        LET path == get_abs_path(cp.target)
            url == GithubUrlsMaker_call(path, cp.fs)
            remote == cp.link_to_github /\ url.exc = "none" /\ ~IsNone(url.val)
        IN  /\ cp.result.exc = "none"
            /\ cp.result.val =
                   <<cp.title, IF remote THEN Val(url.val) ELSE as_uri(path)>>

=============================================================================
